---- MODULE Spec2Model ----
(***************************************************************************)
(* Event scheduling core of atcalendar: the slot indexer                   *)
(* (groupApiEventsToScheduled), the event store service, the drag          *)
(* reconciliation hook (useCalendarDrag), the fetch hook, the delete       *)
(* shortcut and the overlap layout engine (layoutEvents).                  *)
(*                                                                         *)
(* Instants are whole minutes counted from 00:00 of day 1 of the modelled  *)
(* month (local time); every modelled date lies in that month.  A bucket   *)
(* key is the sequence of its dash-separated fields, each field a string,  *)
(* so 'event-2024-01-02-10-0' is <<"event","2024","01","02","10","0">>.    *)
(***************************************************************************)
EXTENDS Integers, Sequences, FiniteSets, TLC

VARIABLES
    store,          \* the persisted IEvent list (localStorage)
    events,         \* the bucket map: ordered list of [key, evs] entries
    activeEvent,    \* drag state of the view: <<>> (null) or <<event>>
    activeFrom,     \* origin key recorded at drag start: <<>> (null) or a key
    rActiveEvent,   \* activeEvent as captured by the handlers of the last render
    rActiveFrom,    \* activeFrom as captured by the handlers of the last render
    dndActive,      \* id of the draggable of the current/last gesture ("" = none)
    lastDragRef,    \* <<>> (null) or <<[key, ts]>>
    isHandlingDrop, \* re-entrancy flag of the month drag end
    now,            \* wall clock in ms (Date.now())
    viewBy,         \* "week" or "month"
    inflight,       \* responses of fetches that have not settled yet
    isLoading,      \* global loading flag
    pendingDelete,  \* <<>> or <<id>>: a confirmed delete awaiting its local update
    storeCalls,     \* number of updatedEvent calls made so far
    fetches,        \* number of fetches issued so far
    last,           \* what the last handler did (observation only)
    layoutIn,       \* input list of the layout engine
    layoutOut,      \* its result: <<>> or <<layout map>>
    keyArg,         \* argument of a key round trip: <<>>, a key or an instant
    keyRes,         \* its result: <<>> or <<[t, key]>>
    monthCall,      \* the month drag-end notification being processed: <<>> or <<[over]>>
    selectedDate,   \* the selected date (fetch hook): <<>> or <<date>>
    fetchRefs,      \* the three 'already fetched' refs of the mounted view's hook
    pendingCalls,   \* the fetchEvents calls awaiting their response, oldest first
    mapOf,          \* <<>> or <<period>>: whose response the bucket map shows
    instance,       \* number of views mounted so far (one hook instance each)
    obs,            \* what the fetch calls did so far (observation only)
    stream          \* the month drag-end notifications so far (observation only)

vars == <<store, events, activeEvent, activeFrom, rActiveEvent, rActiveFrom,
          dndActive, lastDragRef, isHandlingDrop, now, viewBy, inflight,
          isLoading, pendingDelete, storeCalls, fetches, last, layoutIn, layoutOut,
          keyArg, keyRes, monthCall, selectedDate, fetchRefs, pendingCalls, mapOf,
          instance, obs, stream>>

dragVars == <<activeEvent, activeFrom, rActiveEvent, rActiveFrom, dndActive>>
layoutVars == <<layoutIn, layoutOut>>
keyVars == <<keyArg, keyRes>>
callVars == <<monthCall>>
fetchVars == <<selectedDate, fetchRefs, pendingCalls, mapOf, instance, obs>>
streamVars == <<stream>>

---------------------------------------------------------------------------
(* Bounds of the model *)
MaxDay == 1          \* days 1..MaxDay carry droppable cells in the day/week view
MaxAllDayDay == 2    \* days 1..MaxAllDayDay carry a droppable all-day section
MaxMonthDay == 2     \* days 1..MaxMonthDay carry a cell in the month view
MaxUpdates == 3      \* store update calls explored
MaxFetches == 2      \* fetches explored
MaxNow == 450        \* the clock stops advancing here
MaxLayoutEvents == 3 \* length of a layout input
MaxT == 3            \* layout instants range over 0..MaxT
MaxApiEvents == 2    \* length of a list handed to the indexer on its own
MaxKeyDay == 2       \* key round trips range over days 1..MaxKeyDay
MaxCalls == 4        \* fetchEvents calls that reach the service
MaxMounts == 3       \* views mounted

(* Program constants *)
HOURS == 25
SLOTS_PER_HOUR == 4
DedupWindow == 300
DefaultMinutes == 15
AllDayToTimedMinutes == 60
MinutesPerHour == 60
MinutesPerDay == 24 * MinutesPerHour
\* every modelled date lies in January 2024, whose first week is days 1..7
YearStr == "2024"
MonthStr == "01"

---------------------------------------------------------------------------
(* Number <-> string conversions *)
DigitStr == <<"0", "1", "2", "3", "4", "5", "6", "7", "8", "9">>

RECURSIVE Str(_)
Str(n) == IF n < 10 THEN DigitStr[n + 1]
          ELSE Str(n \div 10) \o DigitStr[(n % 10) + 1]

pad2(n) == IF n < 10 THEN "0" \o Str(n) ELSE Str(n)

Undefined == "undefined"

NumDomain == 0 .. 31
StrTable == [n \in NumDomain |-> Str(n)]
Pad2Table == [n \in NumDomain |-> pad2(n)]

\* parseInt(s, 10) yields a number exactly for the digit strings, NaN otherwise
IsNumeric(s) ==
    s = YearStr \/ \E n \in NumDomain : StrTable[n] = s \/ Pad2Table[n] = s
ParseInt(s) ==
    IF s = YearStr THEN 2024
    ELSE CHOOSE n \in NumDomain : StrTable[n] = s \/ Pad2Table[n] = s

---------------------------------------------------------------------------
(* Dates: [valid, t]; an Invalid Date has valid = FALSE *)
InvalidDate == [valid |-> FALSE, t |-> 0]

\* new Date(year, month - 1, day, hour, minute): fields overflow into the next unit
MakeDate(y, mo, d, h, mi) ==
    [valid |-> TRUE, t |-> ((d - 1) * 24 + h) * MinutesPerHour + mi]

getDate(t) == (t \div MinutesPerDay) + 1
getHours(t) == (t % MinutesPerDay) \div MinutesPerHour
getMinutes(t) == t % MinutesPerHour
DayStart(t) == t - (t % MinutesPerDay)

Max(a, b) == IF a > b THEN a ELSE b

---------------------------------------------------------------------------
(* Keys *)
Null == <<>>
EventList == <<"event", "list">>    \* 'event-list'

\* the i-th element of id.split('-'); undefined past the end
Field(k, i) == IF i <= Len(k) THEN k[i] ELSE Undefined

\* id.startsWith('event-') and id.startsWith('all-day-')
StartsWithEvent(k) == Len(k) >= 2 /\ k[1] = "event"
StartsWithAllDay(k) == Len(k) >= 3 /\ k[1] = "all" /\ k[2] = "day"

CellKey(d, h, s) == <<"event", YearStr, MonthStr, pad2(d), Str(h), Str(s)>>
AllDayKey(d) == <<"all", "day", YearStr, MonthStr, pad2(d)>>

\* a variant that pads the hour to two digits
makeEventKey_PaddedHour(t) ==
    <<"event", YearStr, MonthStr, pad2(getDate(t)), pad2(getHours(t)),
      Str(getMinutes(t) \div 15)>>

makeEventKey(t) ==
    <<"event", YearStr, MonthStr, pad2(getDate(t)), Str(getHours(t)),
      Str(getMinutes(t) \div 15)>>

\* a variant that takes the slot field for the minute
buildDateTime_SlotAsMinute(yearStr, monthStr, dayStr, hourStr, slotStr) ==
    IF IsNumeric(yearStr) /\ IsNumeric(monthStr) /\ IsNumeric(dayStr)
         /\ IsNumeric(hourStr) /\ IsNumeric(slotStr)
    THEN MakeDate(ParseInt(yearStr), ParseInt(monthStr), ParseInt(dayStr),
                  ParseInt(hourStr), ParseInt(slotStr))
    ELSE InvalidDate

buildDateTime(yearStr, monthStr, dayStr, hourStr, slotStr) ==
    IF IsNumeric(yearStr) /\ IsNumeric(monthStr) /\ IsNumeric(dayStr)
         /\ IsNumeric(hourStr) /\ IsNumeric(slotStr)
    THEN MakeDate(ParseInt(yearStr), ParseInt(monthStr), ParseInt(dayStr),
                  ParseInt(hourStr), ParseInt(slotStr) * 15)
    ELSE InvalidDate

\* new Date(year, month - 1, day), and the month handler's newDateOnly
buildDateOnly(yearStr, monthStr, dayStr) ==
    IF IsNumeric(yearStr) /\ IsNumeric(monthStr) /\ IsNumeric(dayStr)
    THEN MakeDate(ParseInt(yearStr), ParseInt(monthStr), ParseInt(dayStr), 0, 0)
    ELSE InvalidDate

---------------------------------------------------------------------------
(* The bucket map, a JavaScript object: entries in insertion order *)
EmptyMap == <<>>
MapKeys(m) == {m[i].key : i \in 1 .. Len(m)}
Has(m, k) == \E i \in 1 .. Len(m) : m[i].key = k
IndexOf(m, k) == CHOOSE i \in 1 .. Len(m) : m[i].key = k
\* m[k] || []
Get(m, k) == IF Has(m, k) THEN m[IndexOf(m, k)].evs ELSE <<>>
\* m[k] = v
Put(m, k, v) ==
    IF Has(m, k) THEN [m EXCEPT ![IndexOf(m, k)].evs = v]
    ELSE Append(m, [key |-> k, evs |-> v])
\* delete m[k]
Del(m, k) == SelectSeq(m, LAMBDA en : en.key # k)

\* list.filter(ev => ev.id !== id)
WithoutId(evs, id) == SelectSeq(evs, LAMBDA ev : ev.id # id)
HasId(evs, id) == \E i \in 1 .. Len(evs) : evs[i].id = id

---------------------------------------------------------------------------
(* The slot indexer *)
\* String(ev.id)
StringId(sid) == sid.v

\* ISO strings: the text of an instant, a text no Date parses, or no text at all
toISOString(t) == [kind |-> "iso", t |-> t]
GarbageIso == [kind |-> "garbage", t |-> 0]
MissingIso == [kind |-> "missing", t |-> 0]

\* a variant that hands an unparsable text on as a date (the epoch of the model)
parseSafeDate_KeepsInvalid(iso) == <<iso.t>>

\* parseSafeDate: <<t>> for a parsable string, <<>> (null) otherwise
parseSafeDate(iso) == IF iso.kind = "iso" THEN <<iso.t>> ELSE <<>>

\* a variant whose default end is the start itself
resolveEnd_NoDefault(ev, s) ==
    IF parseSafeDate(ev.end) = <<>> THEN s ELSE parseSafeDate(ev.end)[1]

\* parseSafeDate(ev.end) ?? addMinutes(start, 15)
resolveEnd(ev, s) ==
    IF parseSafeDate(ev.end) = <<>> THEN s + DefaultMinutes
    ELSE parseSafeDate(ev.end)[1]

\* a variant that files every event under its slot key
bucketKey_AlwaysTimed(ev, s) == makeEventKey(s)

\* the key of the event's bucket: the slot key, replaced for an all-day event
bucketKey(ev, s) ==
    IF ev.allDay THEN AllDayKey(getDate(s)) ELSE makeEventKey(s)

IndexOne(acc, ev) ==
    LET start == parseSafeDate(ev.start) IN
    IF start = <<>> THEN acc
    ELSE
      LET s == start[1]
          end == resolveEnd(ev, s)
          duration == Max(0, end - s)
          key == bucketKey(ev, s)
          item == [id |-> StringId(ev.id), start |-> s, end |-> end,
                   duration |-> duration,
                   slot |-> <<getMinutes(s) \div 15>>,
                   allDay |-> ev.allDay]
      IN Put(acc, key, Append(Get(acc, key), item))

RECURSIVE Reduce(_, _)
Reduce(acc, apiEvents) ==
    IF apiEvents = <<>> THEN acc
    ELSE Reduce(IndexOne(acc, Head(apiEvents)), Tail(apiEvents))

groupApiEventsToScheduled(apiEvents) == Reduce(EmptyMap, apiEvents)

---------------------------------------------------------------------------
(* The event store service *)
\* e.id === event.id, event.id being the string id of a calendar event
SameStoredId(sid, id) == ~sid.num /\ sid.v = id

\* updatedEvent: the payload sent to changeEvent
Payload(ev) ==
    [id |-> [num |-> FALSE, v |-> ev.id], start |-> toISOString(ev.start),
     end |-> toISOString(ev.end), allDay |-> ev.allDay]

changeEvent(st, ev) ==
    IF \E i \in 1 .. Len(st) : SameStoredId(st[i].id, ev.id)
    THEN LET i == CHOOSE j \in 1 .. Len(st) :
                    SameStoredId(st[j].id, ev.id)
                    /\ \A l \in 1 .. j - 1 : ~SameStoredId(st[l].id, ev.id)
         IN [st EXCEPT ![i] = Payload(ev)]
    ELSE st

\* deleteEvent(Number(id)): e.id !== n keeps every event whose id is not that number
deleteEvent(st, id) == SelectSeq(st, LAMBDA e : ~(e.id.num /\ e.id.v = id))

\* getEventsByRange / getEventsByMonth for the modelled period (the week, month
\* and year that hold every modelled date): the events with a valid start
getEventsOfPeriod(st) == SelectSeq(st, LAMBDA e : parseSafeDate(e.start) # <<>>)

---------------------------------------------------------------------------
(* The drag reconciliation hook *)

\* handleDragStart: the first key, in object order, whose list holds the id
FoundKey(m, id) ==
    IF \E i \in 1 .. Len(m) : HasId(m[i].evs, id)
    THEN m[CHOOSE i \in 1 .. Len(m) :
              HasId(m[i].evs, id)
              /\ \A j \in 1 .. i - 1 : ~HasId(m[j].evs, id)].key
    ELSE EventList

\* a variant that moves the start and leaves the end where it was
makeMovedEvent_KeepsEnd(src, newStart, preserveEnd) ==
    [src EXCEPT !.start = newStart]

makeMovedEvent(src, newStart, preserveEnd) ==
    LET duration == src.end - src.start
    IN [src EXCEPT !.start = newStart,
                   !.end = IF preserveEnd THEN newStart + duration ELSE src.end]

\* a variant that leaves the origin bucket as it is
RemoveFromOrigin_Keeps(m, from, id) == m

\* "remove from previous cell if applicable"
RemoveFromOrigin(m, from, id) ==
    IF from # Null /\ from # EventList
    THEN LET kept == WithoutId(Get(m, from), id)
         IN IF Len(kept) = 0 THEN Del(m, from) ELSE Put(m, from, kept)
    ELSE m

\* newScheduled[key] = [...(newScheduled[key] || []), moved]
AddToBucket(m, k, ev) == Put(m, k, Append(Get(m, k), ev))

\* the 'event-list' branch: filter every list, delete the emptied keys
RemoveEverywhere(m, id) ==
    LET filtered == [i \in 1 .. Len(m) |->
                        [key |-> m[i].key, evs |-> WithoutId(m[i].evs, id)]]
    IN SelectSeq(filtered, LAMBDA en : Len(en.evs) # 0)

\* a variant in which no update call is counted
Outcome_NoCall(m, st, calls, threw, branch) ==
    [events |-> m, store |-> st, calls |-> 0, threw |-> threw, branch |-> branch]

\* what a drag end leaves: the map, the store, the update calls made, whether the
\* handler threw, and the branch taken
Outcome(m, st, calls, threw, branch) ==
    [events |-> m, store |-> st, calls |-> calls, threw |-> threw, branch |-> branch]

\* handleDragEnd, the 'event-' branch
TimedDrop(ae, from, over, m, st) ==
    LET yearStr == Field(over, 2)
        monthStr == Field(over, 3)
        dayStr == Field(over, 4)
        hourStr == Field(over, 5)
        slotStr == Field(over, 6)
        newDateTime == buildDateTime(yearStr, monthStr, dayStr, hourStr, slotStr)
    IN IF ~newDateTime.valid
       THEN Outcome(m, st, 0, TRUE, "throw")   \* format(Invalid Date): RangeError
       ELSE IF newDateTime.t # ae.start
       THEN LET moved0 == makeMovedEvent(ae, newDateTime.t, ~ae.allDay)
                moved1 == [moved0 EXCEPT !.slot = <<ParseInt(slotStr)>>]
                moved == IF ae.allDay
                         THEN [moved1 EXCEPT
                                 !.allDay = FALSE,
                                 !.end = moved1.start + AllDayToTimedMinutes,
                                 !.duration = AllDayToTimedMinutes]
                         ELSE moved1
                cellKey == <<"event", yearStr, monthStr, dayStr, hourStr, slotStr>>
            IN Outcome(AddToBucket(RemoveFromOrigin(m, from, ae.id), cellKey, moved),
                       changeEvent(st, moved), 1, FALSE, "timed")
       ELSE Outcome(m, st, 0, FALSE, "sameInstant")

\* handleDragEnd, the 'all-day-' branch
AllDayDrop(ae, from, over, m, st) ==
    LET yearStr == Field(over, 3)
        monthStr == Field(over, 4)
        dayStr == Field(over, 5)
        newDate == buildDateOnly(yearStr, monthStr, dayStr)
    IN IF ~newDate.valid
       THEN Outcome(m, st, 0, TRUE, "throw")   \* format(Invalid Date): RangeError
       ELSE LET isSameDay == newDate.t = DayStart(ae.start)
            IN IF ~ae.allDay \/ ~isSameDay
               THEN LET moved == [ae EXCEPT !.start = newDate.t, !.end = newDate.t,
                                            !.allDay = TRUE, !.slot = <<>>]
                        newKey == <<"all", "day", yearStr, monthStr, dayStr>>
                    IN Outcome(AddToBucket(RemoveFromOrigin(m, from, ae.id), newKey, moved),
                               changeEvent(st, moved), 1, FALSE, "allDay")
               ELSE Outcome(m, st, 0, FALSE, "sameDay")

\* handleDragEnd: aeOpt is activeEvent, over the drop target (Null: none)
handleDragEnd(aeOpt, from, over, m, st) ==
    IF aeOpt = <<>> THEN Outcome(m, st, 0, FALSE, "noActive")
    ELSE IF over = Null THEN Outcome(m, st, 0, FALSE, "noOver")
    ELSE IF StartsWithEvent(over) THEN TimedDrop(aeOpt[1], from, over, m, st)
    ELSE IF StartsWithAllDay(over) THEN AllDayDrop(aeOpt[1], from, over, m, st)
    ELSE IF over = EventList
         THEN Outcome(RemoveEverywhere(m, aeOpt[1].id), st, 0, FALSE, "eventList")
    ELSE Outcome(m, st, 0, FALSE, "unrecognized")

\* a variant that also suppresses at the end of the window
IsDuplicateDrop_Inclusive(ref, key, t) ==
    ref # <<>> /\ ref[1].key = key /\ t - ref[1].ts <= DedupWindow

\* a variant with the comparison of the window turned round
IsDuplicateDrop_Inverted(ref, key, t) ==
    ref # <<>> /\ ref[1].key = key /\ t - ref[1].ts > DedupWindow

\* handleMonthDragEnd: "ignore identical quick duplicates"
IsDuplicateDrop(ref, key, t) ==
    ref # <<>> /\ ref[1].key = key /\ t - ref[1].ts < DedupWindow

\* handleMonthDragEnd, the 'event-' branch
MonthDrop(ae, from, over, m, st) ==
    LET yearStr == Field(over, 2)
        monthStr == Field(over, 3)
        dayStr == Field(over, 4)
        hourStr == Field(over, 5)
        slotStr == Field(over, 6)
        newDateOnly == buildDateOnly(yearStr, monthStr, dayStr)
    IN IF ~newDateOnly.valid
       THEN Outcome(m, st, 0, TRUE, "throw")   \* format(Invalid Date): RangeError
       ELSE IF newDateOnly.t = DayStart(ae.start)
       THEN Outcome(m, st, 0, FALSE, "sameDay")
       ELSE LET preserve == Len(from) >= 6
                newHour == IF preserve THEN from[5] ELSE hourStr
                newSlot == IF preserve THEN from[6] ELSE slotStr
                newDateTime == buildDateTime(yearStr, monthStr, dayStr, newHour, newSlot)
                moved0 == makeMovedEvent(ae, newDateTime.t, TRUE)
                moved == [moved0 EXCEPT !.slot = <<ParseInt(newSlot)>>]
                newCellKeyStr == <<"event", yearStr, monthStr, dayStr, newHour, newSlot>>
            IN Outcome(AddToBucket(RemoveFromOrigin(m, from, ae.id), newCellKeyStr, moved),
                       changeEvent(st, moved), 1, FALSE, "timed")

\* the body of handleMonthDragEnd after the duplicate check
handleMonthDragEnd(aeOpt, from, over, m, st) ==
    IF aeOpt = <<>> \/ over = Null THEN Outcome(m, st, 0, FALSE, "noActiveOrOver")
    ELSE IF StartsWithEvent(over) THEN MonthDrop(aeOpt[1], from, over, m, st)
    ELSE IF over = EventList
         THEN Outcome(RemoveEverywhere(m, aeOpt[1].id), st, 0, FALSE, "eventList")
    ELSE Outcome(m, st, 0, FALSE, "unrecognized")

\* the month drop needs a datetime: with a target that carries no hour/slot it
\* has one only when the origin key supplies them
MonthDropHasDateTime(aeOpt, from, over) ==
    (aeOpt # <<>> /\ StartsWithEvent(over) /\ buildDateOnly(Field(over, 2), Field(over, 3), Field(over, 4)).valid
       /\ buildDateOnly(Field(over, 2), Field(over, 3), Field(over, 4)).t # DayStart(aeOpt[1].start))
    => (Len(from) >= 6 \/ Len(over) >= 6)

---------------------------------------------------------------------------
(* The overlap layout engine *)

\* the comparator of the sort: a negative result puts a before b
SortsBefore(a, b) ==
    a.start < b.start
    \/ (a.start = b.start /\ (b.end - b.start) - (a.end - a.start) < 0)

\* Array.prototype.sort is stable: an element goes behind everything it does not
\* sort before
InsertSorted(sorted, e) ==
    LET k == Cardinality({i \in 1 .. Len(sorted) : ~SortsBefore(e, sorted[i])})
    IN SubSeq(sorted, 1, k) \o <<e>> \o SubSeq(sorted, k + 1, Len(sorted))

RECURSIVE sortedEvents(_)
sortedEvents(evs) ==
    IF evs = <<>> THEN <<>>
    ELSE InsertSorted(sortedEvents(SubSeq(evs, 1, Len(evs) - 1)), evs[Len(evs)])

\* a variant in which an event that starts at the running end still joins
SweepOne_JoinsTouching(c, event) ==
    IF Len(c.currentCluster) = 0
    THEN [c EXCEPT !.currentCluster = <<event>>, !.clusterEnd = event.end]
    ELSE IF event.start <= c.clusterEnd
    THEN [c EXCEPT !.currentCluster = Append(c.currentCluster, event),
                   !.clusterEnd = Max(c.clusterEnd, event.end)]
    ELSE [clusters |-> Append(c.clusters, c.currentCluster),
          currentCluster |-> <<event>>, clusterEnd |-> event.end]

\* one turn of the cluster sweep; c = [clusters, currentCluster, clusterEnd]
SweepOne(c, event) ==
    IF Len(c.currentCluster) = 0
    THEN [c EXCEPT !.currentCluster = <<event>>, !.clusterEnd = event.end]
    ELSE IF event.start < c.clusterEnd
    THEN [c EXCEPT !.currentCluster = Append(c.currentCluster, event),
                   !.clusterEnd = Max(c.clusterEnd, event.end)]
    ELSE [clusters |-> Append(c.clusters, c.currentCluster),
          currentCluster |-> <<event>>, clusterEnd |-> event.end]

RECURSIVE Sweep(_, _)
Sweep(c, sorted) ==
    IF sorted = <<>> THEN c ELSE Sweep(SweepOne(c, Head(sorted)), Tail(sorted))

Clusters(evs) ==
    LET c == Sweep([clusters |-> <<>>, currentCluster |-> <<>>, clusterEnd |-> -1],
                   sortedEvents(evs))
    IN IF Len(c.currentCluster) > 0 THEN Append(c.clusters, c.currentCluster)
       ELSE c.clusters

\* a variant that opens a column for every event
PlaceOne_AlwaysNewColumn(columns, event) == Append(columns, <<event>>)

\* layoutCluster, the packing loop: the event goes to the first column whose
\* last event has ended by the event's start, else to a new column
PlaceOne(columns, event) ==
    LET fits == {i \in 1 .. Len(columns) :
                    event.start >= columns[i][Len(columns[i])].end}
    IN IF fits # {}
       THEN LET i == CHOOSE j \in fits : \A l \in fits : j <= l
            IN [columns EXCEPT ![i] = Append(columns[i], event)]
       ELSE Append(columns, <<event>>)

RECURSIVE Columns(_, _)
Columns(columns, cluster) ==
    IF cluster = <<>> THEN columns
    ELSE Columns(PlaceOne(columns, Head(cluster)), Tail(cluster))

\* percentages are fractions <<numerator, denominator>>
Frac(n, d) == <<n, d>>
FracEq(a, b) == a[1] * b[2] = b[1] * a[2]
FracLess(a, b) == a[1] * b[2] < b[1] * a[2]

\* layoutCluster, the assignment loop: the writes to layoutMap, in order
RECURSIVE ColumnWrites(_, _, _)
ColumnWrites(columns, i, numColumns) ==
    IF i > Len(columns) THEN <<>>
    ELSE [j \in 1 .. Len(columns[i]) |->
             [id |-> columns[i][j].id,
              width |-> Frac(100, numColumns),
              left |-> Frac((i - 1) * 100, numColumns)]]
         \o ColumnWrites(columns, i + 1, numColumns)

layoutCluster(cluster) ==
    LET columns == Columns(<<>>, cluster)
    IN ColumnWrites(columns, 1, Len(columns))

RECURSIVE ClusterWrites(_)
ClusterWrites(clusters) ==
    IF clusters = <<>> THEN <<>>
    ELSE layoutCluster(Head(clusters)) \o ClusterWrites(Tail(clusters))

\* layoutEvents: the record of id -> {width, left}; a later write to an id
\* replaces an earlier one
layoutEvents(evs) ==
    LET writes == ClusterWrites(Clusters(evs))
        ids == {writes[i].id : i \in 1 .. Len(writes)}
    IN [id \in ids |->
          LET w == writes[CHOOSE i \in 1 .. Len(writes) :
                            writes[i].id = id
                            /\ \A j \in i + 1 .. Len(writes) : writes[j].id # id]
          IN [width |-> w.width, left |-> w.left]]

\* DayView.dayLayout / WeekView.weekLayouts: the timed events of the buckets of
\* one day, in object order, laid out together
RECURSIVE Concat(_)
Concat(lists) == IF lists = <<>> THEN <<>> ELSE Head(lists) \o Concat(Tail(lists))
dayEvents(m, dayStr) ==
    Concat([i \in 1 .. Len(SelectSeq(m, LAMBDA en :
                Len(en.key) >= 4 /\ en.key[1] = "event" /\ en.key[4] = dayStr)) |->
              SelectSeq(m, LAMBDA en :
                Len(en.key) >= 4 /\ en.key[1] = "event" /\ en.key[4] = dayStr)[i].evs])
dayLayout(m, dayStr) == layoutEvents(dayEvents(m, dayStr))
\* WeekView lays out the seven days of the week
WeekDays == 1 .. 7
weekLayouts(m) == [d \in WeekDays |-> dayLayout(m, pad2(d))]

---------------------------------------------------------------------------
(* Inputs *)
Days == 1 .. MaxDay
\* the hour rows and quarter slots of the cells explored as drop targets
\* (the views render rows 0 .. HOURS - 1 and slots 0 .. SLOTS_PER_HOUR - 1)
CellChoices == {<<0, 0>>, <<10, 1>>, <<HOURS - 1, 0>>}
MonthDays == 1 .. MaxMonthDay

\* targets carrying a key prefix but too few fields
MalformedTimed == <<"event", YearStr, MonthStr, pad2(2)>>
MalformedAllDay == <<"all", "day", YearStr, MonthStr>>
OtherTarget == <<"trash">>

\* DayView / WeekView: DayCell, WeekCell and AllDaySection droppables
WeekCells == {CellKey(d, c[1], c[2]) : d \in Days, c \in CellChoices}
AllDayCells == {AllDayKey(d) : d \in 1 .. MaxAllDayDay}
\* MonthView: one MonthCell droppable per day, hour 0, slot 0
MonthCells == {CellKey(d, 0, 0) : d \in MonthDays}
Sentinels == {Null, EventList, MalformedTimed, MalformedAllDay, OtherTarget}

WeekOvers == WeekCells \cup AllDayCells \cup Sentinels
MonthOvers == MonthCells \cup Sentinels

\* elapsed time between two month drag-end notifications
Gaps == {150, DedupWindow}

\* the persisted events at start-up: a seeded event with a numeric id and an
\* event created through the form, whose id is a uuid string
StoredTimed ==
    [id |-> [num |-> TRUE, v |-> "1"],
     start |-> toISOString(10 * MinutesPerHour + 20),
     end |-> toISOString(11 * MinutesPerHour + 5),
     allDay |-> FALSE]
StoredAllDay ==
    [id |-> [num |-> FALSE, v |-> "u2"],
     start |-> toISOString(MinutesPerDay),
     end |-> toISOString(2 * MinutesPerDay),
     allDay |-> TRUE]
InitialStore == <<StoredTimed, StoredAllDay>>

\* the record of the last handler run: which one, the branch it took, the update
\* calls it made and whether it threw
Did(op, branch, calls, threw) ==
    [op |-> op, branch |-> branch, calls |-> calls, threw |-> threw]
NoOp == Did("init", "", 0, FALSE)

---------------------------------------------------------------------------
(* Initial state: the application has mounted a view, whose fetch is in flight *)
LayoutIdle == layoutIn = <<>> /\ layoutOut = <<>>
KeysIdle == keyArg = <<>> /\ keyRes = <<>>
NoCall == monthCall = <<>>
NoRefs == [range |-> <<>>, month |-> <<>>, year |-> <<>>]
NoFetch == [id |-> 0, state |-> "none", ok |-> FALSE]
NoObs == [requested |-> <<>>, raced |-> FALSE, failed |-> FALSE, forced |-> FALSE,
          skipped |-> FALSE, history |-> <<>>]
\* since: notifications suppressed since the record was written; before and
\* prevTs: when the record was last written over one with the same key, the
\* number suppressed in between and the time of the one written over
NoStream == [since |-> 0, before |-> 0, prevTs |-> 0]
StreamIdle == stream = NoStream
Notified(ref, key, t, suppressed) ==
    IF suppressed THEN [stream EXCEPT !.since = @ + 1]
    ELSE IF ref # <<>> /\ ref[1].key = key
         THEN [since |-> 0, before |-> stream.since, prevTs |-> ref[1].ts]
         ELSE NoStream

FetchIdle ==
    /\ selectedDate = <<>>
    /\ fetchRefs = NoRefs
    /\ pendingCalls = <<>>
    /\ mapOf = <<>>
    /\ instance = 0
    /\ obs = NoObs

InitView(v) ==
    /\ store = InitialStore
    /\ events = EmptyMap
    /\ activeEvent = <<>> /\ activeFrom = Null
    /\ rActiveEvent = <<>> /\ rActiveFrom = Null
    /\ dndActive = ""
    /\ lastDragRef = <<>>
    /\ isHandlingDrop = FALSE
    /\ now = 0
    /\ viewBy = v
    /\ inflight = <<getEventsOfPeriod(store)>>
    /\ isLoading = TRUE
    /\ pendingDelete = <<>>
    /\ storeCalls = 0
    /\ fetches = 1
    /\ last = NoOp
    /\ LayoutIdle
    /\ KeysIdle
    /\ NoCall
    /\ FetchIdle
    /\ StreamIdle

Rendered == rActiveEvent = activeEvent /\ rActiveFrom = activeFrom

---------------------------------------------------------------------------
(* Actions *)

\* React re-renders: the handlers now close over the current drag state
Render ==
    /\ ~Rendered
    /\ rActiveEvent' = activeEvent
    /\ rActiveFrom' = activeFrom
    /\ last' = Did("render", "", 0, FALSE)
    /\ UNCHANGED <<store, events, activeEvent, activeFrom, dndActive, lastDragRef,
                   isHandlingDrop, now, viewBy, inflight, isLoading, pendingDelete,
                   storeCalls, fetches, layoutVars, keyVars, callVars, fetchVars, streamVars>>

\* handleDragStart on the j-th event of the i-th bucket
DragStart(i, j) ==
    /\ Rendered
    /\ LET draggedEvent == events[i].evs[j]
           foundKey == FoundKey(events, draggedEvent.id)
       IN /\ activeEvent' = <<draggedEvent>>
          /\ activeFrom' = foundKey
          /\ rActiveEvent' = <<draggedEvent>>
          /\ rActiveFrom' = foundKey
          /\ dndActive' = draggedEvent.id
          /\ last' = Did("dragStart", "", 0, FALSE)
    /\ UNCHANGED <<store, events, lastDragRef, isHandlingDrop, now, viewBy, inflight,
                   isLoading, pendingDelete, storeCalls, fetches, layoutVars, keyVars,
                   callVars, fetchVars, streamVars>>

\* a variant that puts the map back when the update fails
MapAfterFailedUpdate_RollsBack(before, moved) == before

\* the updater calls updatedEvent(moved) without awaiting it and returns the new
\* map: whatever becomes of the update, the map is the moved one
MapAfterFailedUpdate(before, moved) == moved

\* handleDragEnd (day and week views); persisted tells whether the write of the
\* store service goes through (localStorage.setItem can fail: the service logs
\* the error and the persisted list stays as it was)
DragEndWith(over, persisted) ==
    /\ viewBy = "week"
    /\ dndActive # ""
    /\ Rendered
    /\ LET out == handleDragEnd(activeEvent, activeFrom, over, events, store)
       IN /\ storeCalls + out.calls <= MaxUpdates
          /\ events' = IF persisted THEN out.events
                       ELSE MapAfterFailedUpdate(events, out.events)
          /\ store' = IF persisted THEN out.store ELSE store
          /\ storeCalls' = storeCalls + out.calls
          /\ IF out.threw
             THEN UNCHANGED <<activeEvent, activeFrom, rActiveEvent, rActiveFrom>>
             ELSE /\ activeEvent' = <<>> /\ activeFrom' = Null
                  /\ rActiveEvent' = <<>> /\ rActiveFrom' = Null
          /\ last' = Did(IF persisted THEN "dragEnd" ELSE "dragEndUpdateFailed",
                         out.branch, out.calls, out.threw)
    /\ UNCHANGED <<dndActive, lastDragRef, isHandlingDrop, now, viewBy, inflight,
                   isLoading, pendingDelete, fetches, layoutVars, keyVars, callVars,
                   fetchVars, streamVars>>

DragEnd(over) == DragEndWith(over, TRUE)

\* handleDragEnd making its update call while the store fails
DragEndUpdateFails(over) ==
    /\ handleDragEnd(activeEvent, activeFrom, over, events, store).calls > 0
    /\ DragEndWith(over, FALSE)

\* handleMonthDragEnd, dt ms after the previous notification; the handler is the
\* one of the last render
MonthDragEnd(over, dt) ==
    /\ viewBy = "month"
    /\ dndActive # ""
    /\ now + dt <= MaxNow
    /\ MonthDropHasDateTime(rActiveEvent, rActiveFrom, over)
    /\ now' = now + dt
    /\ IF isHandlingDrop
       THEN /\ last' = Did("monthDragEnd", "reentrant", 0, FALSE)
            /\ UNCHANGED <<store, events, activeEvent, activeFrom, lastDragRef,
                           storeCalls, stream>>
       ELSE LET key == <<dndActive, over>>
            IN IF IsDuplicateDrop(lastDragRef, key, now')
               THEN /\ last' = Did("monthDragEnd", "duplicate", 0, FALSE)
                    /\ activeEvent' = <<>> /\ activeFrom' = Null
                    /\ stream' = Notified(lastDragRef, key, now', TRUE)
                    /\ UNCHANGED <<store, events, lastDragRef, storeCalls>>
               ELSE LET out == handleMonthDragEnd(rActiveEvent, rActiveFrom, over,
                                                  events, store)
                    IN /\ storeCalls + out.calls <= MaxUpdates
                       /\ lastDragRef' = <<[key |-> key, ts |-> now']>>
                       /\ stream' = Notified(lastDragRef, key, now', FALSE)
                       /\ events' = out.events
                       /\ store' = out.store
                       /\ storeCalls' = storeCalls + out.calls
                       /\ activeEvent' = <<>> /\ activeFrom' = Null
                       /\ last' = Did("monthDragEnd", out.branch, out.calls, out.threw)
    /\ UNCHANGED <<rActiveEvent, rActiveFrom, dndActive, isHandlingDrop, viewBy,
                   inflight, isLoading, pendingDelete, fetches, layoutVars, keyVars, callVars,
                   fetchVars>>

\* fetchEvents up to its await: the map is cleared, the store is read
FetchStart ==
    /\ fetches < MaxFetches
    /\ fetches' = fetches + 1
    /\ isLoading' = TRUE
    /\ events' = EmptyMap
    /\ inflight' = Append(inflight, getEventsOfPeriod(store))
    /\ last' = Did("fetchStart", "", 0, FALSE)
    /\ UNCHANGED <<store, dragVars, lastDragRef, isHandlingDrop, now, viewBy,
                   pendingDelete, storeCalls, layoutVars, keyVars, callVars, fetchVars, streamVars>>

\* fetchEvents after its await: the response is indexed into the map
FetchDone ==
    /\ inflight # <<>>
    /\ events' = groupApiEventsToScheduled(Head(inflight))
    /\ inflight' = Tail(inflight)
    /\ isLoading' = FALSE
    /\ last' = Did("fetchDone", "", 0, FALSE)
    /\ UNCHANGED <<store, dragVars, lastDragRef, isHandlingDrop, now, viewBy,
                   pendingDelete, storeCalls, fetches, layoutVars, keyVars, callVars,
                   fetchVars, streamVars>>

\* "Remove from local state": every list is filtered, no key is deleted
RemoveFromLocalState(m, id) ==
    [i \in 1 .. Len(m) |-> [key |-> m[i].key, evs |-> WithoutId(m[i].evs, id)]]

\* Shortcuts.handleDeleteConfirm for the selected event.  A numeric id goes to
\* the store and the handler awaits; any other id skips the store and the
\* handler runs to its end in one go
DeleteConfirm(i, j) ==
    /\ pendingDelete = <<>>
    /\ LET selectedEvent == events[i].evs[j]
       IN IF IsNumeric(selectedEvent.id)
          THEN /\ store' = deleteEvent(store, selectedEvent.id)
               /\ pendingDelete' = <<selectedEvent.id>>
               /\ isLoading' = TRUE
               /\ UNCHANGED events
          ELSE /\ events' = RemoveFromLocalState(events, selectedEvent.id)
               /\ isLoading' = FALSE
               /\ UNCHANGED <<store, pendingDelete>>
    /\ last' = Did("deleteConfirm", "", 0, FALSE)
    /\ UNCHANGED <<dragVars, lastDragRef, isHandlingDrop, now, viewBy,
                   inflight, storeCalls, fetches, layoutVars, keyVars, callVars, fetchVars,
                   streamVars>>

\* Shortcuts.handleDeleteConfirm after its await
DeleteApply ==
    /\ pendingDelete # <<>>
    /\ events' = RemoveFromLocalState(events, pendingDelete[1])
    /\ pendingDelete' = <<>>
    /\ isLoading' = FALSE
    /\ last' = Did("deleteApply", "", 0, FALSE)
    /\ UNCHANGED <<store, dragVars, lastDragRef, isHandlingDrop, now, viewBy,
                   inflight, storeCalls, fetches, layoutVars, keyVars, callVars, fetchVars,
                   streamVars>>

\* the day/week view: drags and refreshes
Init == InitView("week")

Next ==
    \/ \E i \in 1 .. Len(events) : \E j \in 1 .. Len(events[i].evs) : DragStart(i, j)
    \/ \E over \in WeekOvers : DragEnd(over)
    \/ FetchStart
    \/ FetchDone

Spec == Init /\ [][Next]_vars

\* the day/week view with a store whose writes can fail
NextStoreFails ==
    \/ \E i \in 1 .. Len(events) : \E j \in 1 .. Len(events[i].evs) : DragStart(i, j)
    \/ \E over \in WeekOvers : DragEnd(over)
    \/ \E over \in WeekOvers : DragEndUpdateFails(over)
    \/ FetchStart
    \/ FetchDone

SpecStoreFails == Init /\ [][NextStoreFails]_vars

\* the day/week view with the delete shortcut
NextDelete ==
    \/ \E i \in 1 .. Len(events) : \E j \in 1 .. Len(events[i].evs) : DragStart(i, j)
    \/ \E over \in WeekOvers : DragEnd(over)
    \/ FetchStart
    \/ FetchDone
    \/ \E i \in 1 .. Len(events) : \E j \in 1 .. Len(events[i].evs) : DeleteConfirm(i, j)
    \/ DeleteApply

SpecDelete == Init /\ [][NextDelete]_vars

\* the month view
InitMonth == InitView("month")

NextMonth ==
    \/ Render
    \/ \E i \in 1 .. Len(events) : \E j \in 1 .. Len(events[i].evs) : DragStart(i, j)
    \/ \E over \in MonthOvers : \E dt \in Gaps : MonthDragEnd(over, dt)
    \/ FetchStart
    \/ FetchDone

SpecMonth == InitMonth /\ [][NextMonth]_vars

\* the layout engine on its own: the view gathers a list of up to
\* MaxLayoutEvents events with distinct ids and instants in 0 .. MaxT
LayoutIds == <<"a", "b", "c", "d", "e">>
LayoutInstants == 0 .. MaxT

InitLayout ==
    /\ store = <<>>
    /\ events = EmptyMap
    /\ activeEvent = <<>> /\ activeFrom = Null
    /\ rActiveEvent = <<>> /\ rActiveFrom = Null
    /\ dndActive = ""
    /\ lastDragRef = <<>>
    /\ isHandlingDrop = FALSE
    /\ now = 0
    /\ viewBy = "week"
    /\ inflight = <<>>
    /\ isLoading = FALSE
    /\ pendingDelete = <<>>
    /\ storeCalls = 0
    /\ fetches = 0
    /\ last = NoOp
    /\ LayoutIdle
    /\ KeysIdle
    /\ NoCall
    /\ FetchIdle
    /\ StreamIdle

\* the view gathers one more event of the day
Gather(start, end) ==
    /\ layoutOut = <<>>
    /\ Len(layoutIn) < MaxLayoutEvents
    /\ layoutIn' = Append(layoutIn, [id |-> LayoutIds[Len(layoutIn) + 1],
                                      start |-> start, end |-> end])
    /\ last' = Did("gather", "", 0, FALSE)
    /\ UNCHANGED <<store, events, dragVars, lastDragRef, isHandlingDrop, now, viewBy,
                   inflight, isLoading, pendingDelete, storeCalls, fetches, layoutOut,
                   keyVars, callVars, fetchVars, streamVars>>

\* the view calls layoutEvents on the list
Layout ==
    /\ layoutOut = <<>>
    /\ layoutOut' = <<layoutEvents(layoutIn)>>
    /\ last' = Did("layout", "", 0, FALSE)
    /\ UNCHANGED <<store, events, dragVars, lastDragRef, isHandlingDrop, now, viewBy,
                   inflight, isLoading, pendingDelete, storeCalls, fetches, layoutIn,
                   keyVars, callVars, fetchVars, streamVars>>

NextLayout ==
    \/ \E start \in LayoutInstants : \E end \in LayoutInstants : Gather(start, end)
    \/ Layout

SpecLayout == InitLayout /\ [][NextLayout]_vars

\* the indexer on its own: the persisted list holds up to MaxApiEvents events
\* whose start and end texts are whatever localStorage holds, and the whole
\* list is handed to groupApiEventsToScheduled
ApiIds == <<"a", "b", "c", "d">>
\* 09:05, 10:00, 10:15, 10:44, 10:59 on day 1 and 23:30 on day 2
ApiInstants ==
    {9 * MinutesPerHour + 5, 10 * MinutesPerHour, 10 * MinutesPerHour + 15,
     10 * MinutesPerHour + 44, 10 * MinutesPerHour + 59,
     MinutesPerDay + 23 * MinutesPerHour + 30}
ApiStarts == {toISOString(t) : t \in ApiInstants} \cup {GarbageIso, MissingIso}
ApiEnds == {toISOString(11 * MinutesPerHour), GarbageIso, MissingIso}

InitIndex ==
    /\ store = <<>>
    /\ events = EmptyMap
    /\ activeEvent = <<>> /\ activeFrom = Null
    /\ rActiveEvent = <<>> /\ rActiveFrom = Null
    /\ dndActive = ""
    /\ lastDragRef = <<>>
    /\ isHandlingDrop = FALSE
    /\ now = 0
    /\ viewBy = "day"
    /\ inflight = <<>>
    /\ isLoading = FALSE
    /\ pendingDelete = <<>>
    /\ storeCalls = 0
    /\ fetches = 0
    /\ last = NoOp
    /\ LayoutIdle
    /\ KeysIdle
    /\ NoCall
    /\ FetchIdle
    /\ StreamIdle

\* the persisted list holds one more event
Stored(start, end, allDay) ==
    /\ last.op # "index"
    /\ Len(store) < MaxApiEvents
    /\ store' = Append(store, [id |-> [num |-> FALSE, v |-> ApiIds[Len(store) + 1]],
                                start |-> start, end |-> end, allDay |-> allDay])
    /\ last' = Did("stored", "", 0, FALSE)
    /\ UNCHANGED <<events, dragVars, lastDragRef, isHandlingDrop, now, viewBy,
                   inflight, isLoading, pendingDelete, storeCalls, fetches, layoutVars,
                   keyVars, callVars, fetchVars, streamVars>>

\* groupApiEventsToScheduled on the whole list
Index ==
    /\ last.op # "index"
    /\ events' = groupApiEventsToScheduled(store)
    /\ last' = Did("index", "", 0, FALSE)
    /\ UNCHANGED <<store, dragVars, lastDragRef, isHandlingDrop, now, viewBy,
                   inflight, isLoading, pendingDelete, storeCalls, fetches, layoutVars,
                   keyVars, callVars, fetchVars, streamVars>>

NextIndex ==
    \/ \E start \in ApiStarts : \E end \in ApiEnds : \E allDay \in BOOLEAN :
          Stored(start, end, allDay)
    \/ Index

SpecIndex == InitIndex /\ [][NextIndex]_vars

\* the two key conversions on their own: a well-formed timed key is split and
\* built into an instant whose key is derived, or the key of a quarter-hour
\* instant is derived, split and built back; days 1 .. MaxKeyDay
HoursOfDay == 0 .. 23
QuartersPerDay == MinutesPerDay \div 15
WellFormedKeys ==
    {CellKey(d, h, s) : d \in 1 .. MaxKeyDay, h \in HoursOfDay,
                        s \in 0 .. SLOTS_PER_HOUR - 1}
AlignedInstants == {15 * q : q \in 0 .. MaxKeyDay * QuartersPerDay - 1}

KeyArgs ==
    {[kind |-> "key", key |-> k, t |-> 0] : k \in WellFormedKeys}
    \cup {[kind |-> "instant", key |-> <<>>, t |-> t] : t \in AlignedInstants}

InitKeys ==
    /\ store = <<>>
    /\ events = EmptyMap
    /\ activeEvent = <<>> /\ activeFrom = Null
    /\ rActiveEvent = <<>> /\ rActiveFrom = Null
    /\ dndActive = ""
    /\ lastDragRef = <<>>
    /\ isHandlingDrop = FALSE
    /\ now = 0
    /\ viewBy = "week"
    /\ inflight = <<>>
    /\ isLoading = FALSE
    /\ pendingDelete = <<>>
    /\ storeCalls = 0
    /\ fetches = 0
    /\ last = NoOp
    /\ LayoutIdle
    /\ keyArg \in KeyArgs
    /\ keyRes = <<>>
    /\ NoCall
    /\ FetchIdle
    /\ StreamIdle

\* parseOverId and buildDateTime on a key, as the drag end applies them
DateTimeOfKey(k) ==
    buildDateTime(Field(k, 2), Field(k, 3), Field(k, 4), Field(k, 5), Field(k, 6))

\* the drag end's conversion, then the indexer's
BuildThenKey ==
    /\ keyArg.kind = "key"
    /\ keyRes = <<>>
    /\ LET dt == DateTimeOfKey(keyArg.key)
       IN keyRes' = <<[t |-> dt.t, key |-> makeEventKey(dt.t)]>>
    /\ last' = Did("buildThenKey", "", 0, FALSE)
    /\ UNCHANGED <<store, events, dragVars, lastDragRef, isHandlingDrop, now, viewBy,
                   inflight, isLoading, pendingDelete, storeCalls, fetches, layoutVars,
                   keyArg, callVars, fetchVars, streamVars>>

\* the indexer's conversion, then the drag end's
KeyThenBuild ==
    /\ keyArg.kind = "instant"
    /\ keyRes = <<>>
    /\ LET k == makeEventKey(keyArg.t)
       IN keyRes' = <<[t |-> DateTimeOfKey(k).t, key |-> k]>>
    /\ last' = Did("keyThenBuild", "", 0, FALSE)
    /\ UNCHANGED <<store, events, dragVars, lastDragRef, isHandlingDrop, now, viewBy,
                   inflight, isLoading, pendingDelete, storeCalls, fetches, layoutVars,
                   keyArg, callVars, fetchVars, streamVars>>

NextKeys ==
    \/ BuildThenKey
    \/ KeyThenBuild

SpecKeys == InitKeys /\ [][NextKeys]_vars

\* the month view with handleMonthDragEnd taken step by step: its entry (the
\* re-entrancy check and the raising of the flag), then its try block and its
\* finally block; a notification delivered in between is a nested call, which
\* returns before the outer call goes on

\* a variant whose early return on a duplicate leaves the flag raised
FlagAfterExit_StuckOnDuplicate(branch) == branch = "duplicate"

\* the finally block: isHandlingDrop.current = false, whatever the exit path
FlagAfterExit(branch) == FALSE

\* handleMonthDragEnd up to the try block, dt ms after the previous notification
MonthEnter(over, dt) ==
    /\ viewBy = "month"
    /\ dndActive # ""
    /\ NoCall
    /\ FetchIdle
    /\ StreamIdle
    /\ ~isHandlingDrop
    /\ now + dt <= MaxNow
    /\ MonthDropHasDateTime(rActiveEvent, rActiveFrom, over)
    /\ storeCalls + handleMonthDragEnd(rActiveEvent, rActiveFrom, over,
                                       events, store).calls <= MaxUpdates
    /\ now' = now + dt
    /\ isHandlingDrop' = TRUE
    /\ monthCall' = <<[over |-> over]>>
    /\ last' = Did("monthEnter", "", 0, FALSE)
    /\ UNCHANGED <<store, events, dragVars, lastDragRef, viewBy, inflight, isLoading,
                   pendingDelete, storeCalls, fetches, layoutVars, keyVars,
                   fetchVars, streamVars>>

\* handleMonthDragEnd called while the flag is raised: "Ignored reentrant drag end"
MonthReentrant(over) ==
    /\ viewBy = "month"
    /\ dndActive # ""
    /\ isHandlingDrop
    /\ last' = Did("monthDragEnd", "reentrant", 0, FALSE)
    /\ UNCHANGED <<store, events, dragVars, lastDragRef, isHandlingDrop, now, viewBy,
                   inflight, isLoading, pendingDelete, storeCalls, fetches, layoutVars,
                   keyVars, callVars, fetchVars, streamVars>>

\* the try block and the finally block of the call that raised the flag
MonthFinish ==
    /\ monthCall # <<>>
    /\ LET over == monthCall[1].over
           key == <<dndActive, over>>
           duplicate == IsDuplicateDrop(lastDragRef, key, now)
           out == IF duplicate THEN Outcome(events, store, 0, FALSE, "duplicate")
                  ELSE handleMonthDragEnd(rActiveEvent, rActiveFrom, over, events, store)
       IN /\ lastDragRef' = IF duplicate THEN lastDragRef
                            ELSE <<[key |-> key, ts |-> now]>>
          /\ stream' = Notified(lastDragRef, key, now, duplicate)
          /\ events' = out.events
          /\ store' = out.store
          /\ storeCalls' = storeCalls + out.calls
          /\ isHandlingDrop' = FlagAfterExit(out.branch)
          /\ last' = Did("monthDragEnd", out.branch, out.calls, out.threw)
    /\ activeEvent' = <<>> /\ activeFrom' = Null
    /\ monthCall' = <<>>
    /\ UNCHANGED <<rActiveEvent, rActiveFrom, dndActive, now, viewBy, inflight,
                   isLoading, pendingDelete, fetches, layoutVars, keyVars, fetchVars>>

NextMonthSteps ==
    \/ NoCall /\ Render
    \/ NoCall /\ \E i \in 1 .. Len(events) : \E j \in 1 .. Len(events[i].evs) :
                    DragStart(i, j)
    \/ \E over \in MonthOvers : \E dt \in Gaps : MonthEnter(over, dt)
    \/ \E over \in MonthOvers : MonthReentrant(over)
    \/ MonthFinish
    \/ NoCall /\ FetchStart
    \/ NoCall /\ FetchDone

SpecMonthSteps == InitMonth /\ [][NextMonthSteps]_vars

\* the day/week view and the month view side by side: the application mounts
\* either one
InitViews == InitView("week") \/ InitView("month")

NextViews ==
    \/ Render
    \/ \E i \in 1 .. Len(events) : \E j \in 1 .. Len(events[i].evs) : DragStart(i, j)
    \/ \E over \in WeekOvers : DragEnd(over)
    \/ \E over \in MonthOvers : \E dt \in Gaps : MonthDragEnd(over, dt)
    \/ FetchStart
    \/ FetchDone

SpecViews == InitViews /\ [][NextViews]_vars

---------------------------------------------------------------------------
(* The fetch hook: periods, 'already fetched' refs, calls in flight *)

FetchViews == {"week", "month", "year"}

\* A selected date: its year, its month as Date.getMonth gives it, and the
\* number of its week counted from Monday 1 January 2024 (startOfWeek with
\* weekStartsOn 1)
DateOf(y, m, w, d) == [year |-> y, month |-> m, week |-> w, day |-> d]
SelectableDates ==
    {DateOf(2024, 0, 0, 1), DateOf(2024, 0, 0, 3), DateOf(2024, 0, 1, 8),
     DateOf(2024, 1, 5, 5), DateOf(2025, 0, 53, 6)}

\* The period a view shows for a date
PeriodOf(v, d) ==
    CASE v = "week" -> <<"week", d.week>>
      [] v = "month" -> <<"month", d.year, d.month>>
      [] v = "year" -> <<"year", d.year>>

\* The service's answer for a period: every modelled event lies in the week,
\* month and year of 1 January 2024
EventsOfPeriod(st, p) ==
    IF p \in {<<"week", 0>>, <<"month", 2024, 0>>, <<"year", 2024>>}
    THEN getEventsOfPeriod(st)
    ELSE <<>>

\* The early-return test of each case of fetchEvents
AlreadyFetched(v, d, refs) ==
    CASE v = "week" -> refs.range = <<d.week>>
      [] v = "month" -> refs.month = <<d.month>>
      [] v = "year" -> refs.year = <<d.year>>

\* The month case writes its ref before the await
RefsAtCall(v, d, refs, own) ==
    IF own /\ v = "month" THEN [refs EXCEPT !.month = <<d.month>>] ELSE refs

\* The week and year cases write their ref after the await
RefsAtResponse(v, d, refs, own) ==
    IF ~own THEN refs
    ELSE CASE v = "week" -> [refs EXCEPT !.range = <<d.week>>]
           [] v = "year" -> [refs EXCEPT !.year = <<d.year>>]
           [] OTHER -> refs

\* Per period, the latest fetch made while the mounted view has been mounted
AllPeriods == {PeriodOf(v, d) : v \in FetchViews, d \in SelectableDates}
NoHistory == [p \in AllPeriods |-> NoFetch]

Requests == IF obs.requested = <<>> THEN 0 ELSE obs.requested[1].id

\* One call of fetchEvents(force) by the hook instance of the mounted view
\* (own) or of the event panel, with the refs that instance holds.  The
\* service either throws while reading the store (fails), and the call runs
\* through catch and finally at once, or answers 200 ms later
fetchEvents(op, v, d, refs, force, fails) ==
    LET own == ~force
        p == PeriodOf(v, d)
        id == Requests + 1
    IN IF ~force /\ AlreadyFetched(v, d, refs)
       THEN /\ isLoading' = FALSE
            /\ fetchRefs' = refs
            /\ last' = Did(op, "skipped", 0, FALSE)
            /\ obs' = [obs EXCEPT !.skipped = TRUE]
            /\ UNCHANGED <<events, mapOf, pendingCalls>>
       ELSE /\ Requests < MaxCalls
            /\ events' = EmptyMap
            /\ mapOf' = <<>>
            /\ fetchRefs' = RefsAtCall(v, d, refs, own)
            /\ isLoading' = ~fails
            /\ pendingCalls' =
                   IF fails THEN pendingCalls
                   ELSE Append(pendingCalls,
                               [id |-> id, view |-> v, date |-> d,
                                inst |-> IF own THEN instance' ELSE 0,
                                response |-> EventsOfPeriod(store, p)])
            /\ last' = Did(op, IF fails THEN "failed" ELSE "sent", 0, FALSE)
            /\ obs' = [requested |-> <<[id |-> id, period |-> p,
                                        state |-> IF fails THEN "failed" ELSE "pending"]>>,
                       raced |-> \E i \in 1 .. Len(pendingCalls) :
                                     PeriodOf(pendingCalls[i].view, pendingCalls[i].date) # p,
                       failed |-> obs.failed \/ fails,
                       forced |-> obs.forced \/ force,
                       skipped |-> FALSE,
                       history |-> [(IF op = "switchView" THEN NoHistory ELSE obs.history)
                                       EXCEPT ![p] = [id |-> id,
                                                      state |-> IF fails THEN "failed"
                                                                ELSE "pending",
                                                      ok |-> @.ok]]]

\* The first view is mounted on 1 January 2024 and its effect's fetchEvents()
\* is in flight
FirstDate == DateOf(2024, 0, 0, 1)
InitFetch ==
    /\ store = InitialStore
    /\ events = EmptyMap
    /\ activeEvent = <<>> /\ activeFrom = Null
    /\ rActiveEvent = <<>> /\ rActiveFrom = Null
    /\ dndActive = ""
    /\ lastDragRef = <<>>
    /\ isHandlingDrop = FALSE
    /\ now = 0
    /\ viewBy \in FetchViews
    /\ inflight = <<>>
    /\ isLoading = TRUE
    /\ pendingDelete = <<>>
    /\ storeCalls = 0
    /\ fetches = 0
    /\ last = NoOp
    /\ LayoutIdle
    /\ KeysIdle
    /\ NoCall
    /\ StreamIdle
    /\ selectedDate = <<FirstDate>>
    /\ instance = 1
    /\ fetchRefs = RefsAtCall(viewBy, FirstDate, NoRefs, TRUE)
    /\ pendingCalls = <<[id |-> 1, view |-> viewBy, date |-> FirstDate, inst |-> 1,
                         response |-> EventsOfPeriod(store, PeriodOf(viewBy, FirstDate))]>>
    /\ mapOf = <<>>
    /\ obs = [requested |-> <<[id |-> 1, period |-> PeriodOf(viewBy, FirstDate),
                               state |-> "pending"]>>,
              raced |-> FALSE, failed |-> FALSE, forced |-> FALSE, skipped |-> FALSE,
              history |-> [NoHistory EXCEPT ![PeriodOf(viewBy, FirstDate)] =
                                                [id |-> 1, state |-> "pending", ok |-> FALSE]]]

\* TodayNav / DateInput: a new selected date; the effect of the mounted view
\* calls fetchEvents()
SelectDate(d, fails) ==
    /\ selectedDate' = <<d>>
    /\ instance' = instance
    /\ fetchEvents("selectDate", viewBy, d, fetchRefs, FALSE, fails)
    /\ UNCHANGED <<store, dragVars, lastDragRef, isHandlingDrop, now, viewBy, inflight,
                   pendingDelete, storeCalls, fetches, layoutVars, keyVars, callVars, streamVars>>

\* ViewByBar: another view is mounted, with a hook instance of its own whose
\* refs start empty; its effect calls fetchEvents()
SwitchView(v, fails) ==
    /\ v # viewBy
    /\ instance < MaxMounts
    /\ instance' = instance + 1
    /\ viewBy' = v
    /\ fetchEvents("switchView", v, selectedDate[1], NoRefs, FALSE, fails)
    /\ UNCHANGED <<store, dragVars, lastDragRef, isHandlingDrop, now, inflight, selectedDate,
                   pendingDelete, storeCalls, fetches, layoutVars, keyVars, callVars, streamVars>>

\* EventPanel.handleSave after its awaited store call: fetchEvents(true) of the
\* panel's own hook instance, whose refs are not those of the mounted view
Refresh(fails) ==
    /\ instance' = instance
    /\ fetchEvents("refresh", viewBy, selectedDate[1], fetchRefs, TRUE, fails)
    /\ UNCHANGED <<store, dragVars, lastDragRef, isHandlingDrop, now, viewBy, inflight,
                   selectedDate, pendingDelete, storeCalls, fetches, layoutVars, keyVars,
                   callVars, streamVars>>

\* The oldest call in flight gets its response: ref, grouping, setEvents,
\* finally
FetchResponse ==
    /\ pendingCalls # <<>>
    /\ LET c == Head(pendingCalls)
       IN /\ fetchRefs' = RefsAtResponse(c.view, c.date, fetchRefs, c.inst = instance)
          /\ events' = groupApiEventsToScheduled(c.response)
          /\ mapOf' = <<PeriodOf(c.view, c.date)>>
          /\ obs' = [obs EXCEPT
                        !.requested = IF obs.requested[1].id = c.id
                                      THEN <<[obs.requested[1] EXCEPT !.state = "ok"]>>
                                      ELSE @,
                        !.history = [q \in AllPeriods |->
                                        [id |-> obs.history[q].id,
                                         state |-> IF obs.history[q].id = c.id THEN "ok"
                                                   ELSE obs.history[q].state,
                                         ok |-> \/ obs.history[q].ok
                                                \/ /\ c.inst = instance
                                                   /\ q = PeriodOf(c.view, c.date)]]]
    /\ pendingCalls' = Tail(pendingCalls)
    /\ isLoading' = FALSE
    /\ last' = Did("fetchResponse", "", 0, FALSE)
    /\ UNCHANGED <<store, dragVars, lastDragRef, isHandlingDrop, now, viewBy, inflight,
                   selectedDate, instance, pendingDelete, storeCalls, fetches, layoutVars,
                   keyVars, callVars, streamVars>>

NextFetch ==
    \/ \E d \in SelectableDates, fails \in BOOLEAN : SelectDate(d, fails)
    \/ \E v \in FetchViews, fails \in BOOLEAN : SwitchView(v, fails)
    \/ \E fails \in BOOLEAN : Refresh(fails)
    \/ FetchResponse

SpecFetch == InitFetch /\ [][NextFetch]_vars

---------------------------------------------------------------------------
(* Properties *)

\* the drag state is Idle
Idle == activeEvent = <<>> /\ activeFrom = Null

\* the positions <<bucket, index>> at which the map holds the id
Positions(m, id) ==
    {p \in UNION {{<<i, j>> : j \in 1 .. Len(m[i].evs)} : i \in 1 .. Len(m)} :
        m[p[1]].evs[p[2]].id = id}
IdsOf(m) == UNION {{m[i].evs[j].id : j \in 1 .. Len(m[i].evs)} : i \in 1 .. Len(m)}
\* the events of bucket k that carry the id
CopiesIn(m, k, id) == SelectSeq(Get(m, k), LAMBDA ev : ev.id = id)
\* the dragged event sits in the recorded origin bucket and nowhere else
LocatedInOrigin ==
    /\ activeEvent # <<>>
    /\ activeFrom # Null
    /\ CopiesIn(events, activeFrom, activeEvent[1].id) = <<activeEvent[1]>>
    /\ Cardinality(Positions(events, activeEvent[1].id)) = 1
\* the instant a well-formed timed cell stands for
CellInstant(c) == buildDateTime(c[2], c[3], c[4], c[5], c[6]).t

\* C1: after every drag-end notification (handleDragEnd or handleMonthDragEnd),
\* whatever branch is taken, the drag state is Idle: activeEvent is null and the
\* recorded origin key is null.
C1_DragEndLeavesIdle ==
    last.op \in {"dragEnd", "monthDragEnd"} => Idle

\* C2, as stated: a timed event with end - start = d located in origin bucket O,
\* dropped by handleDragEnd right after its drag start onto a timed cell whose
\* instant differs from its start, yields a moved copy with start = the cell's
\* instant and end - start = d; afterwards the id is absent from O and appears
\* exactly once in the destination bucket.
C2_Case(c) ==
    /\ DragEnd(c)
    /\ LocatedInOrigin
    /\ ~activeEvent[1].allDay
    /\ CellInstant(c) # activeEvent[1].start
C2_MovedCopy(c) ==
    LET e == activeEvent[1]
        copies == CopiesIn(events', c, e.id)
    IN /\ Len(copies) = 1
       /\ copies[1].start = CellInstant(c)
       /\ copies[1].end - copies[1].start = e.end - e.start
C3_AllDayToTimed ==
    [][\A c \in WeekCells :
         (/\ DragEnd(c)
          /\ LocatedInOrigin
          /\ activeEvent[1].allDay
          /\ StartsWithAllDay(activeFrom))
         => LET copies == CopiesIn(events', c, activeEvent[1].id)
            IN /\ Len(copies) = 1
               /\ ~copies[1].allDay
               /\ copies[1].duration = 60
               /\ copies[1].end = copies[1].start + 60
               /\ ~HasId(Get(events', activeFrom), activeEvent[1].id)]_vars

\* C4: for any event in the bucket map, a drag-start followed by a drag-end whose
\* target is the key of the bucket the event currently occupies leaves the bucket
\* map unchanged and makes no store update call.
C4_DropOnOwnBucket ==
    [][\A over \in WeekCells \cup AllDayCells :
         (DragEnd(over) /\ LocatedInOrigin /\ over = activeFrom)
         => (events' = events /\ storeCalls' = storeCalls /\ store' = store)]_vars

\* C5: in the month-granularity drag-end, two notifications carrying the same
\* (active id, over id) pair and arriving less than 300 ms apart cause exactly one
\* bucket-map mutation and exactly one store update call: the notification that
\* repeats the recorded pair within the window is ignored entirely, it changes
\* neither the map, nor the store, nor the number of update calls, nor the record.
C5_Repeats(over) ==
    /\ lastDragRef # <<>>
    /\ lastDragRef[1].key = <<dndActive, over>>
    /\ now' - lastDragRef[1].ts < 300
C5_DuplicateSuppressed ==
    [][\A over \in MonthOvers : \A dt \in Gaps :
         (MonthDragEnd(over, dt) /\ C5_Repeats(over))
         => /\ UNCHANGED <<events, store, storeCalls, lastDragRef>>
            /\ last'.calls = 0]_vars

\* a month drop moved an event with one update call, and its repetition inside
\* the window, handled by the same stale handler, has just been suppressed
C5_Suppressed ==
    /\ last.op = "monthDragEnd" /\ last.branch = "duplicate"
    /\ storeCalls = 1
    /\ rActiveEvent # <<>>
    /\ Cardinality(Positions(events, dndActive)) = 1
    /\ lastDragRef # <<>> /\ now - lastDragRef[1].ts < 300

\* C6: when a drag-end with an active event targets the unscheduled-list
\* sentinel 'event-list', the event is removed from every bucket that contains
\* its id, buckets emptied by the removal are deleted, and the drag state
\* returns to Idle.
C6_DropOnEventList ==
    [][(DragEnd(EventList) /\ activeEvent # <<>>)
        => /\ Positions(events', activeEvent[1].id) = {}
           /\ \A i \in 1 .. Len(events') : Len(events'[i].evs) > 0
           /\ activeEvent' = <<>> /\ activeFrom' = Null]_vars

\* C7: a drag-end whose target key is malformed (it carries the 'event-' or
\* 'all-day-' prefix but has fewer dash-separated fields than expected) is
\* treated as no applicable target: the bucket map is not mutated, no store call
\* is made, and the drag state still resolves to Idle.
C7_MalformedTarget ==
    [][\A over \in {MalformedTimed, MalformedAllDay} :
         (DragEnd(over) /\ activeEvent # <<>>)
         => /\ events' = events
            /\ storeCalls' = storeCalls /\ store' = store
            /\ activeEvent' = <<>> /\ activeFrom' = Null]_vars

\* C8: in every reachable state each event id present in the bucket map appears
\* in exactly one bucket and exactly once in that bucket's list.
C8_OneBucketPerId ==
    \A id \in IdsOf(events) : Cardinality(Positions(events, id)) = 1

\* C9: in every reachable state no key of the bucket map maps to an empty list.
C9_NoEmptyBucket ==
    \A i \in 1 .. Len(events) : Len(events[i].evs) > 0

\* C10: for any input list given to layoutEvents, any two events whose intervals
\* overlap (A.start < B.end and B.start < A.end) are assigned different columns:
\* they lie in the same cluster and receive different left offsets.  Here the
\* input lists are the ones the day/week view hands over, one per day.
Overlap(a, b) == a.start < b.end /\ b.start < a.end
SameCluster(evs, a, b) ==
    \E k \in 1 .. Len(Clusters(evs)) :
        LET cl == Clusters(evs)[k]
        IN (\E i \in 1 .. Len(cl) : cl[i] = a) /\ (\E i \in 1 .. Len(cl) : cl[i] = b)
NonOverlap(evs) ==
    \A i \in 1 .. Len(evs) : \A j \in 1 .. Len(evs) :
        (i # j /\ Overlap(evs[i], evs[j]))
        => /\ SameCluster(evs, evs[i], evs[j])
           /\ ~FracEq(layoutEvents(evs)[evs[i].id].left,
                      layoutEvents(evs)[evs[j].id].left)
C10_OverlapsGetDifferentColumns ==
    \A d \in WeekDays : NonOverlap(dayEvents(events, pad2(d)))

\* the same property of the lists whose ids are pairwise distinct, on the result
\* the engine returned
NonOverlapOnDistinctIds ==
    layoutOut # <<>> =>
      \A i \in 1 .. Len(layoutIn) : \A j \in 1 .. Len(layoutIn) :
         (i # j /\ Overlap(layoutIn[i], layoutIn[j]))
         => /\ SameCluster(layoutIn, layoutIn[i], layoutIn[j])
            /\ ~FracEq(layoutOut[1][layoutIn[i].id].left,
                       layoutOut[1][layoutIn[j].id].left)

\* C11: every entry returned by layoutEvents satisfies: width = 100 / n where
\* n >= 1 is the number of columns of the event's cluster, left = columnIndex *
\* width with 0 <= columnIndex < n, all events of one cluster share the same
\* width, and therefore 0 < width <= 100, 0 <= left < 100 and left + width <= 100.
FracLeq(a, b) == a[1] * b[2] <= b[1] * a[2]
FracSum(a, b) == <<a[1] * b[2] + b[1] * a[2], a[2] * b[2]>>
Percent(n) == Frac(n, 1)
\* the clusters of the list that hold the event, and the columns that hold it
ClustersOf(evs, e) ==
    {k \in 1 .. Len(Clusters(evs)) :
        \E i \in 1 .. Len(Clusters(evs)[k]) : Clusters(evs)[k][i] = e}
ColumnsOf(cluster, e) ==
    {c \in 1 .. Len(Columns(<<>>, cluster)) :
        \E i \in 1 .. Len(Columns(<<>>, cluster)[c]) : Columns(<<>>, cluster)[c][i] = e}
EntryAsPacked(evs, out, e) ==
    \E k \in ClustersOf(evs, e) :
        LET cluster == Clusters(evs)[k]
            n == Len(Columns(<<>>, cluster))
        IN /\ n >= 1
           /\ FracEq(out[e.id].width, Frac(100, n))
           /\ \E c \in ColumnsOf(cluster, e) :
                 /\ 0 <= c - 1 /\ c - 1 < n
                 /\ FracEq(out[e.id].left, Frac((c - 1) * out[e.id].width[1],
                                                out[e.id].width[2]))
           /\ \A i \in 1 .. Len(cluster) :
                 FracEq(out[cluster[i].id].width, out[e.id].width)
EntryInRange(entry) ==
    /\ FracLess(Percent(0), entry.width) /\ FracLeq(entry.width, Percent(100))
    /\ FracLeq(Percent(0), entry.left) /\ FracLess(entry.left, Percent(100))
    /\ FracLeq(FracSum(entry.left, entry.width), Percent(100))
\* every entry is the entry of an event of the list, packed as stated
LayoutEntries(evs, out) ==
    /\ DOMAIN out = {evs[i].id : i \in 1 .. Len(evs)}
    /\ \A id \in DOMAIN out :
          /\ \E i \in 1 .. Len(evs) : evs[i].id = id /\ EntryAsPacked(evs, out, evs[i])
          /\ EntryInRange(out[id])
\* Here the input lists are the ones the day/week view hands over, one per day.
C11_EntriesAreEqualColumns ==
    \A d \in WeekDays :
        LayoutEntries(dayEvents(events, pad2(d)), dayLayout(events, pad2(d)))

\* the same property of the lists whose ids are pairwise distinct, on the result
\* the engine returned
EntriesOnDistinctIds ==
    layoutOut # <<>> => LayoutEntries(layoutIn, layoutOut[1])

\* the engine has laid out a cluster of two columns next to a cluster of one:
\* entries of width 50 at left 0 and left 50, and an entry of width 100
PackedTwoAndOne ==
    /\ layoutOut # <<>>
    /\ Len(Clusters(layoutIn)) = 2
    /\ \E k \in 1 .. 2 : Len(Columns(<<>>, Clusters(layoutIn)[k])) = 2
    /\ \E a \in DOMAIN layoutOut[1] : \E b \in DOMAIN layoutOut[1] :
          /\ FracEq(layoutOut[1][a].width, Percent(50))
          /\ FracEq(layoutOut[1][a].left, Percent(50))
          /\ FracEq(layoutOut[1][b].width, Percent(100))

\* C12, as stated: in layoutEvents an event joins the current cluster only if its
\* start is strictly before the cluster's running maximum end; an event whose
\* start equals that end starts a new cluster.  In particular two events A and B
\* with A.end = B.start and no other events each receive width 100 and left 0.
RECURSIVE MaxEnd(_)
MaxEnd(evs) ==
    IF Len(evs) = 1 THEN evs[1].end
    ELSE Max(MaxEnd(SubSeq(evs, 1, Len(evs) - 1)), evs[Len(evs)].end)
\* the clusters cut the sorted list exactly where an event does not start
\* strictly before the running maximum end
JoinRule(evs) ==
    LET cl == Clusters(evs)
    IN /\ Concat(cl) = sortedEvents(evs)
       /\ \A k \in 1 .. Len(cl) :
             /\ Len(cl[k]) >= 1
             /\ \A i \in 2 .. Len(cl[k]) :
                   cl[k][i].start < MaxEnd(SubSeq(cl[k], 1, i - 1))
             /\ k > 1 => cl[k][1].start >= MaxEnd(cl[k - 1])
FullWidth(entry) == FracEq(entry.width, Percent(100)) /\ FracEq(entry.left, Percent(0))
C12_TouchingAsStated ==
    layoutOut # <<>> =>
      /\ JoinRule(layoutIn)
      /\ (Len(layoutIn) = 2 =>
            \A i \in 1 .. 2 : \A j \in 1 .. 2 :
               (i # j /\ layoutIn[i].end = layoutIn[j].start)
               => \A id \in DOMAIN layoutOut[1] : FullWidth(layoutOut[1][id]))

\* C12, amended: the join rule as stated; two events A and B with A.end = B.start
\* and no other events each receive width 100 and left 0 provided A ends after it
\* starts (A.start < A.end).
C12_TouchingStartsNewCluster ==
    layoutOut # <<>> =>
      /\ JoinRule(layoutIn)
      /\ (Len(layoutIn) = 2 =>
            \A i \in 1 .. 2 : \A j \in 1 .. 2 :
               (/\ i # j
                /\ layoutIn[i].end = layoutIn[j].start
                /\ layoutIn[i].start < layoutIn[i].end)
               => \A id \in DOMAIN layoutOut[1] : FullWidth(layoutOut[1][id]))

\* two touching events of positive length have been laid out in two clusters,
\* each at full width
C12_Touching ==
    /\ layoutOut # <<>>
    /\ Len(layoutIn) = 2
    /\ layoutIn[1].start < layoutIn[1].end
    /\ layoutIn[1].end = layoutIn[2].start
    /\ layoutIn[2].start < layoutIn[2].end
    /\ Len(Clusters(layoutIn)) = 2
    /\ \A id \in {layoutIn[1].id, layoutIn[2].id} : FullWidth(layoutOut[1][id])

\* the text of a date field is missing or no Date parses it
Unparsable(iso) == iso.kind # "iso"
\* the persisted events at position i of the list handed to the indexer
Indexed == last.op = "index"
\* the events of the map that carry the id, with the key of their bucket
Filed(m, id) == {[key |-> m[p[1]].key, ev |-> m[p[1]].evs[p[2]]] : p \in Positions(m, id)}

\* C13: for any input list, groupApiEventsToScheduled silently omits every event
\* whose start is missing or unparsable: no bucket contains it, no error is
\* raised, and the other events are indexed exactly as if the dropped ones were
\* absent from the input.
C13_UnparsableStartDropped ==
    Indexed =>
      /\ ~last.threw
      /\ \A i \in 1 .. Len(store) :
            Unparsable(store[i].start) => Positions(events, store[i].id.v) = {}
      /\ events = groupApiEventsToScheduled(
                     SelectSeq(store, LAMBDA e : ~Unparsable(e.start)))
      /\ \A i \in 1 .. Len(store) :
            ~Unparsable(store[i].start)
            => Cardinality(Positions(events, store[i].id.v)) = 1

\* a list of an unparsable start followed by a valid one has been indexed: only
\* the second event is in the map
C13_Dropped ==
    /\ Indexed
    /\ Len(store) = 2
    /\ Unparsable(store[1].start) /\ ~Unparsable(store[2].start)
    /\ IdsOf(events) = {store[2].id.v}

\* the bucket an event that starts at t belongs to, spelled out field by field
\* from the numbers of the date
ExpectedKey(t, allDay) ==
    IF allDay THEN <<"all", "day", YearStr, MonthStr, Pad2Table[getDate(t)]>>
    ELSE <<"event", YearStr, MonthStr, Pad2Table[getDate(t)], StrTable[getHours(t)],
           StrTable[getMinutes(t) \div 15]>>

\* C14: for an event with a valid start T and a missing or unparsable end,
\* groupApiEventsToScheduled sets end = T + 15 minutes and duration = 15 and
\* files the event in the bucket derived from T.
C14_DefaultEnd ==
    Indexed =>
      \A i \in 1 .. Len(store) :
         (~Unparsable(store[i].start) /\ Unparsable(store[i].end))
         => LET T == store[i].start.t
            IN /\ Filed(events, store[i].id.v) # {}
               /\ \A f \in Filed(events, store[i].id.v) :
                     /\ f.ev.start = T
                     /\ f.ev.end = T + 15
                     /\ f.ev.duration = 15
                     /\ f.key = ExpectedKey(T, store[i].allDay)

\* an event that starts at 10:00 and carries no end has been indexed: it ends
\* at 10:15 and lasts 15 minutes
C14_Defaulted ==
    /\ Indexed
    /\ \E i \in 1 .. Len(store) :
          /\ store[i].start = toISOString(600) /\ store[i].end = MissingIso
          /\ ~store[i].allDay
          /\ \E f \in Filed(events, store[i].id.v) :
                f.ev.end = 615 /\ f.ev.duration = 15
                /\ f.key = <<"event", "2024", "01", "01", "10", "0">>

\* C15: for every non-all-day event with a valid start, the bucket key produced
\* by groupApiEventsToScheduled is event-<yyyy>-<MM>-<dd>-<H>-<S> with 2-digit
\* month and day, H the start hour in 0..23 without leading zero and
\* S = floor(minute / 15) in 0..3 (10:00 gives slot 0, 10:15 slot 1, 10:44 slot 2,
\* 10:59 slot 3).
SlotKeyExamples ==
    [t \in ApiInstants |->
       IF t = 545 THEN <<"event", "2024", "01", "01", "9", "0">>
       ELSE IF t = 600 THEN <<"event", "2024", "01", "01", "10", "0">>
       ELSE IF t = 615 THEN <<"event", "2024", "01", "01", "10", "1">>
       ELSE IF t = 644 THEN <<"event", "2024", "01", "01", "10", "2">>
       ELSE IF t = 659 THEN <<"event", "2024", "01", "01", "10", "3">>
       ELSE IF t = 2850 THEN <<"event", "2024", "01", "02", "23", "2">>
       ELSE ExpectedKey(t, FALSE)]
C15_SlotKey ==
    Indexed =>
      \A i \in 1 .. Len(store) :
         (~Unparsable(store[i].start) /\ ~store[i].allDay)
         => LET T == store[i].start.t
            IN /\ Filed(events, store[i].id.v) # {}
               /\ \A f \in Filed(events, store[i].id.v) :
                     /\ f.key = ExpectedKey(T, FALSE)
                     /\ T \in ApiInstants => f.key = SlotKeyExamples[T]
                     /\ getHours(T) \in 0 .. 23
                     /\ getMinutes(T) \div 15 \in 0 .. 3
                     /\ f.ev.slot = <<getMinutes(T) \div 15>>

\* events that start at 09:05 and at 10:44 have been indexed under
\* event-2024-01-01-9-0 and event-2024-01-01-10-2
C15_Keyed ==
    /\ Indexed
    /\ Has(events, <<"event", "2024", "01", "01", "9", "0">>)
    /\ Has(events, <<"event", "2024", "01", "01", "10", "2">>)
    /\ \E i \in 1 .. Len(store) : store[i].start = toISOString(545) /\ ~store[i].allDay
    /\ \E i \in 1 .. Len(store) : store[i].start = toISOString(644) /\ ~store[i].allDay

\* C16: for every event with allDay = true and a valid start,
\* groupApiEventsToScheduled files it under all-day-<yyyy>-<MM>-<dd> of the start
\* date whatever the start's time-of-day, with allDay = true on the derived
\* event, and under no timed key.
C16_AllDayKey ==
    Indexed =>
      \A i \in 1 .. Len(store) :
         (~Unparsable(store[i].start) /\ store[i].allDay)
         => LET T == store[i].start.t
            IN /\ Filed(events, store[i].id.v) # {}
               /\ \A f \in Filed(events, store[i].id.v) :
                     /\ f.key = <<"all", "day", "2024", "01", Pad2Table[getDate(T)]>>
                     /\ f.ev.allDay
                     /\ ~StartsWithEvent(f.key)

\* an all-day event whose start reads 10:15 has been indexed under
\* all-day-2024-01-01
C16_AllDayFiled ==
    /\ Indexed
    /\ \E i \in 1 .. Len(store) :
          /\ store[i].start = toISOString(615) /\ store[i].allDay
          /\ \E f \in Filed(events, store[i].id.v) :
                f.key = <<"all", "day", "2024", "01", "01">> /\ f.ev.allDay

\* C17: in handleMonthDragEnd, dropping a timed event onto a cell of a different
\* date yields a moved copy whose date is the target date and whose time-of-day
\* (hour and minute of start) equals the event's time-of-day before the move,
\* with end - start unchanged; the drop cell's own hour/slot is not used when the
\* origin bucket key gives the hour/slot.
C17_Case(over, dt) ==
    /\ MonthDragEnd(over, dt)
    /\ ~IsDuplicateDrop(lastDragRef, <<dndActive, over>>, now')
    /\ rActiveEvent # <<>>
    /\ ~rActiveEvent[1].allDay
    /\ Len(rActiveFrom) >= 6
    /\ buildDateOnly(over[2], over[3], over[4]).t # DayStart(rActiveEvent[1].start)
C17_MonthKeepsTimeOfDay ==
    [][\A over \in MonthCells : \A dt \in Gaps :
         C17_Case(over, dt)
         => LET e == rActiveEvent[1]
                target == buildDateOnly(over[2], over[3], over[4]).t
            IN \E f \in Filed(events', e.id) :
                  /\ DayStart(f.ev.start) = target
                  /\ getHours(f.ev.start) = getHours(e.start)
                  /\ getMinutes(f.ev.start) = getMinutes(e.start)
                  /\ f.ev.end - f.ev.start = e.end - e.start]_vars

\* C18: handleDragEnd onto an all-day key all-day-Y-MM-DD: if the active event is
\* not already all-day on that exact date, the moved copy has allDay = true,
\* start = end = midnight of that date and slot undefined, is removed from its
\* origin bucket and appended to the all-day bucket of that date; if it is
\* already all-day on that date nothing changes.
C18_AllDayDrop ==
    [][\A over \in AllDayCells :
         (DragEnd(over) /\ activeEvent # <<>>)
         => LET e == activeEvent[1]
                midnight == buildDateOnly(over[3], over[4], over[5]).t
                bucket == Get(events', over)
            IN IF e.allDay /\ DayStart(e.start) = midnight
               THEN events' = events /\ store' = store /\ storeCalls' = storeCalls
               ELSE /\ bucket = Append(Get(events, over),
                                       [e EXCEPT !.allDay = TRUE, !.start = midnight,
                                                 !.end = midnight, !.slot = <<>>])
                    /\ ~HasId(Get(events', activeFrom), e.id)
                    /\ storeCalls' = storeCalls + 1]_vars

\* the same steps for an event that sits in the recorded origin bucket and
\* nowhere else
AllDayDropWhenLocated ==
    [][\A over \in AllDayCells :
         (DragEnd(over) /\ LocatedInOrigin)
         => LET e == activeEvent[1]
                midnight == buildDateOnly(over[3], over[4], over[5]).t
            IN IF e.allDay /\ DayStart(e.start) = midnight
               THEN events' = events /\ store' = store /\ storeCalls' = storeCalls
               ELSE /\ Get(events', over)
                         = Append(Get(events, over),
                                  [e EXCEPT !.allDay = TRUE, !.start = midnight,
                                            !.end = midnight, !.slot = <<>>])
                    /\ ~HasId(Get(events', activeFrom), e.id)
                    /\ storeCalls' = storeCalls + 1]_vars

\* the timed event has just been dropped on the all-day section of day 1: it
\* sits there as an all-day event that starts and ends at midnight, without slot
MadeAllDay ==
    /\ last.op = "dragEnd" /\ last.branch = "allDay"
    /\ \E f \in Filed(events, StoredTimed.id.v) :
          /\ f.key = <<"all", "day", "2024", "01", "01">>
          /\ f.ev.allDay /\ f.ev.start = 0 /\ f.ev.end = 0 /\ f.ev.slot = <<>>
    /\ ~Has(events, makeEventKey(StoredTimed.start.t))

\* C19: a drag-end that moves the event into a timed or all-day bucket invokes the
\* store update exactly once, with the moved copy; a drag-end with no active
\* event, no target, an unrecognized target or the event's unchanged position
\* invokes it zero times.
LastOf(evs) == evs[Len(evs)]
\* the target stands for the position the event already has: the timed cell of
\* its start instant, or the all-day section of its date for an all-day event
UnchangedPosition(e, over) ==
    \/ over \in WeekCells /\ CellInstant(over) = e.start
    \/ /\ over \in AllDayCells /\ e.allDay
       /\ buildDateOnly(over[3], over[4], over[5]).t = DayStart(e.start)
C20_MovedState(over) ==
    /\ events' = handleDragEnd(activeEvent, activeFrom, over, events, store).events
    /\ Get(events', over) # <<>>
    /\ LastOf(Get(events', over)).id = activeEvent[1].id
    /\ LastOf(Get(events', over)) # activeEvent[1]
C20_NoRetry ==
    /\ storeCalls' = storeCalls + 1
    /\ store' = store
    /\ activeEvent' = <<>> /\ activeFrom' = Null
ActiveAt(cluster, t) ==
    Cardinality({i \in 1 .. Len(cluster) : cluster[i].start <= t /\ t < cluster[i].end})
\* the number of active events changes only at a start: the maximum is taken there
RECURSIVE MaxOf(_)
MaxOf(S) ==
    IF S = {} THEN 0
    ELSE LET x == CHOOSE y \in S : TRUE IN Max(x, MaxOf(S \ {x}))
MaxActive(cluster) ==
    MaxOf({ActiveAt(cluster, cluster[i].start) : i \in 1 .. Len(cluster)})
FewestLanes(evs, out) ==
    \A k \in 1 .. Len(Clusters(evs)) :
       LET cluster == Clusters(evs)[k]
       IN /\ Len(Columns(<<>>, cluster)) = MaxActive(cluster)
          /\ \A i \in 1 .. Len(cluster) :
                /\ MaxActive(cluster) > 0
                /\ FracEq(out[cluster[i].id].width, Frac(100, MaxActive(cluster)))
PositiveLengths(evs) == \A i \in 1 .. Len(evs) : evs[i].start < evs[i].end
Length(e) == e.end - e.start
Occurrences(evs, e) == Cardinality({i \in 1 .. Len(evs) : evs[i] = e})
\* the processing order holds the events of the list, by start ascending and, for
\* equal starts, by longer duration first; the clusters are cut from it in order
ProcessingOrder(evs) ==
    LET s == sortedEvents(evs)
    IN /\ Len(s) = Len(evs)
       /\ \A i \in 1 .. Len(evs) : Occurrences(s, evs[i]) = Occurrences(evs, evs[i])
       /\ \A i \in 1 .. Len(s) : \A j \in i + 1 .. Len(s) :
             \/ s[i].start < s[j].start
             \/ s[i].start = s[j].start /\ Length(s[i]) >= Length(s[j])
       /\ Concat(Clusters(evs)) = s
LongerGoesLeft(evs, out) ==
    \A i \in 1 .. Len(evs) : \A j \in 1 .. Len(evs) :
       (/\ evs[i].start = evs[j].start
        /\ Length(evs[i]) > Length(evs[j]) /\ Length(evs[j]) > 0)
       => /\ \E k \in ClustersOf(evs, evs[i]) \cap ClustersOf(evs, evs[j]) :
                \A ci \in ColumnsOf(Clusters(evs)[k], evs[i]) :
                   \A cj \in ColumnsOf(Clusters(evs)[k], evs[j]) : ci < cj
          /\ FracLess(out[evs[i].id].left, out[evs[j].id].left)
C22_LongerFirst ==
    \A d \in WeekDays :
       /\ ProcessingOrder(dayEvents(events, pad2(d)))
       /\ LongerGoesLeft(dayEvents(events, pad2(d)), dayLayout(events, pad2(d)))

\* the same property of the lists whose ids are pairwise distinct, on the result
\* the engine returned
LongerFirstOnDistinctIds ==
    layoutOut # <<>> =>
       /\ ProcessingOrder(layoutIn)
       /\ LongerGoesLeft(layoutIn, layoutOut[1])

\* a list that names the shorter of two events with one start first has been laid
\* out: the longer event is at left 0, the shorter one at left 50
ShortListedFirst ==
    /\ layoutOut # <<>>
    /\ Len(layoutIn) = 2
    /\ layoutIn[1].start = layoutIn[2].start
    /\ 0 < Length(layoutIn[1]) /\ Length(layoutIn[1]) < Length(layoutIn[2])
    /\ FracEq(layoutOut[1][layoutIn[2].id].left, Percent(0))
    /\ FracEq(layoutOut[1][layoutIn[1].id].left, Percent(50))

\* C23: key building and key parsing are inverse on well-formed input: for every
\* timed key k = event-Y-MM-DD-H-S with H in 0..23 and S in 0..3, building the
\* instant from k's dash-separated fields (buildDateTime) and deriving the key of
\* that instant (makeEventKey) returns k; and for every instant t aligned to a
\* quarter hour, parsing makeEventKey(t) and rebuilding yields t.
C23_KeyRoundTrip ==
    keyRes # <<>> =>
       /\ keyArg.kind = "key" => keyRes[1].key = keyArg.key
       /\ keyArg.kind = "instant" => keyRes[1].t = keyArg.t

\* the key event-2024-01-02-9-3 has been built into 09:45 of day 2 and keyed
\* back, and 23:45 of day 1 has been keyed as event-2024-01-01-23-3 and built back
C23_RoundTripped ==
    /\ keyRes # <<>>
    /\ \/ /\ keyArg.key = <<"event", "2024", "01", "02", "9", "3">>
          /\ keyRes[1] = [t |-> MinutesPerDay + 9 * MinutesPerHour + 45,
                          key |-> <<"event", "2024", "01", "02", "9", "3">>]
       \/ /\ keyArg.kind = "instant"
          /\ keyArg.t = 23 * MinutesPerHour + 45
          /\ keyRes[1] = [t |-> 23 * MinutesPerHour + 45,
                          key |-> <<"event", "2024", "01", "01", "23", "3">>]

\* C24: the re-entrancy flag isHandlingDrop is true exactly while a month drag-end
\* is being processed: a drag-end arriving while it is true is rejected without
\* mutating the bucket map or calling the store, and on every exit path of
\* handleMonthDragEnd (move, same-day no-op, suppressed duplicate, no target,
\* exception) the flag is false again, so a later gesture is never blocked.
FlagWhileProcessing == isHandlingDrop <=> monthCall # <<>>
ExitPaths == {"timed", "sameDay", "duplicate", "noActiveOrOver", "throw",
              "eventList", "unrecognized"}
C24_FlagGuardsProcessing ==
    [][/\ FlagWhileProcessing
       /\ FlagWhileProcessing'
       /\ \A over \in MonthOvers :
             MonthReentrant(over)
             => /\ isHandlingDrop
                /\ UNCHANGED <<events, store, storeCalls, lastDragRef, isHandlingDrop,
                               activeEvent, activeFrom>>
                /\ last'.calls = 0
       /\ MonthFinish
          => /\ last'.branch \in ExitPaths
             /\ ~isHandlingDrop']_vars

\* a notification has just been rejected while the drop of an event is being
\* processed: the flag is up and the drag state is still the one of the gesture
C24_Rejected ==
    /\ last.op = "monthDragEnd" /\ last.branch = "reentrant"
    /\ isHandlingDrop
    /\ monthCall # <<>>
    /\ activeEvent # <<>>
    /\ events # EmptyMap

\* C25: a drag move (standard or month variant) changes only the dragged event:
\* every other event keeps its bucket, its field values and its relative order
\* within its bucket, buckets other than origin and destination are untouched,
\* and the moved copy is appended at the end of the destination bucket's list
\* (the bucket being created if absent).
\* the list without its first occurrence of e
RemoveOne(evs, e) ==
    IF \E i \in 1 .. Len(evs) : evs[i] = e
    THEN LET i == CHOOSE j \in 1 .. Len(evs) :
                     evs[j] = e /\ \A l \in 1 .. j - 1 : evs[l] # e
         IN SubSeq(evs, 1, i - 1) \o SubSeq(evs, i + 1, Len(evs))
    ELSE evs
\* the dragged event e is one of the events of bucket from
DraggedFrom(m, e, from) == \E i \in 1 .. Len(Get(m, from)) : Get(m, from)[i] = e
\* the step from map m to map m2 takes the dragged event e out of bucket from,
\* appends a copy that carries its id to bucket dest and leaves every other event
\* where it is
OnlyDraggedChanges(m, m2, e, from, dest) ==
    /\ Has(m2, dest)
    /\ LastOf(Get(m2, dest)).id = e.id
    /\ \A k \in MapKeys(m) \cup MapKeys(m2) :
          LET before == IF k = from THEN RemoveOne(Get(m, k), e) ELSE Get(m, k)
              after == IF k = dest THEN SubSeq(Get(m2, k), 1, Len(Get(m2, k)) - 1)
                       ELSE Get(m2, k)
          IN /\ after = before
             /\ k \notin {from, dest} => (Has(m2, k) <=> Has(m, k))
\* the bucket a month drop files the moved copy in
MonthDestination(from, over) ==
    <<"event", Field(over, 2), Field(over, 3), Field(over, 4),
      IF Len(from) >= 6 THEN from[5] ELSE Field(over, 5),
      IF Len(from) >= 6 THEN from[6] ELSE Field(over, 6)>>
C25_MoveTouchesOnlyDragged ==
    [][/\ \A over \in WeekOvers :
             (/\ DragEnd(over) /\ last'.branch \in {"timed", "allDay"}
              /\ DraggedFrom(events, activeEvent[1], activeFrom))
             => OnlyDraggedChanges(events, events', activeEvent[1], activeFrom, over)
       /\ \A over \in MonthOvers : \A dt \in Gaps :
             (/\ MonthDragEnd(over, dt) /\ last'.branch = "timed"
              /\ DraggedFrom(events, rActiveEvent[1], rActiveFrom))
             => OnlyDraggedChanges(events, events', rActiveEvent[1], rActiveFrom,
                                   MonthDestination(rActiveFrom, over))]_vars

\* the same steps, every event that carries another id than the dragged one
\* staying where it is
OtherIdsStay(m, m2, id, from, dest) ==
    /\ \A k \in MapKeys(m) \cup MapKeys(m2) :
          /\ WithoutId(Get(m2, k), id) = WithoutId(Get(m, k), id)
          /\ k \notin {from, dest} => (Get(m2, k) = Get(m, k) /\ (Has(m2, k) <=> Has(m, k)))
    /\ Has(m2, dest)
    /\ LastOf(Get(m2, dest)).id = id
    /\ SubSeq(Get(m2, dest), 1, Len(Get(m2, dest)) - 1)
          = IF dest = from THEN WithoutId(Get(m, dest), id) ELSE Get(m, dest)
MoveTouchesOnlyDraggedId ==
    [][/\ \A over \in WeekOvers :
             (DragEnd(over) /\ last'.branch \in {"timed", "allDay"})
             => OtherIdsStay(events, events', activeEvent[1].id, activeFrom, over)
       /\ \A over \in MonthOvers : \A dt \in Gaps :
             (MonthDragEnd(over, dt) /\ last'.branch = "timed")
             => OtherIdsStay(events, events', rActiveEvent[1].id, rActiveFrom,
                             MonthDestination(rActiveFrom, over))]_vars

\* an event has just been moved into a bucket that held another event: the other
\* event is first in the list, the moved copy last
AppendedBehind ==
    /\ last.op \in {"dragEnd", "monthDragEnd"}
    /\ last.branch \in {"timed", "allDay"}
    /\ \E i \in 1 .. Len(events) :
          /\ Len(events[i].evs) = 2
          /\ events[i].evs[2].id = dndActive
          /\ events[i].evs[1].id # dndActive

\* C26: in every reachable state each event sits in the bucket whose key the Slot
\* Indexer would derive from the event's own fields: an event in a timed bucket
\* event-Y-MM-DD-H-S has allDay = false, H in 0..23, S in 0..3 and a start on date
\* Y-MM-DD at hour H with floor(minute/15) = S; an event in all-day-Y-MM-DD has
\* allDay = true and a start on that date.  This holds after any sequence of
\* indexing and drag moves in day, week and month views, for every droppable cell
\* the views render (rows for hours 0..HOURS-1 with HOURS = 25) and for all-day as
\* well as timed dragged events.
FiledUnderOwnKey(k, ev) ==
    /\ k = ExpectedKey(ev.start, ev.allDay)
    /\ StartsWithEvent(k)
       => /\ ~ev.allDay
          /\ Len(k) = 6
          /\ k[5] \in {StrTable[h] : h \in 0 .. 23}
          /\ k[6] \in {StrTable[q] : q \in 0 .. 3}
          /\ k[4] = Pad2Table[getDate(ev.start)]
          /\ k[5] = StrTable[getHours(ev.start)]
          /\ k[6] = StrTable[getMinutes(ev.start) \div 15]
    /\ StartsWithAllDay(k)
       => /\ ev.allDay
          /\ Len(k) = 5
          /\ k[5] = Pad2Table[getDate(ev.start)]
C26_EventsUnderOwnKey ==
    \A i \in 1 .. Len(events) : \A j \in 1 .. Len(events[i].evs) :
       FiledUnderOwnKey(events[i].key, events[i].evs[j])

\* the same right after an indexing
IndexedUnderOwnKey ==
    last.op \in {"fetchDone", "index"} => C26_EventsUnderOwnKey

\* C27: after a drag move whose store update completes successfully, listing the
\* events from the store again and re-indexing them with
\* groupApiEventsToScheduled yields a bucket map with the same bucket membership
\* as the in-memory map left by the drag, for every event the indexer can
\* produce, i.e. whether the stored id is a number or a string.
\* which id sits in which bucket
Membership(m) ==
    UNION {{<<m[i].key, m[i].evs[j].id>> : j \in 1 .. Len(m[i].evs)} : i \in 1 .. Len(m)}
Reloaded(st) == groupApiEventsToScheduled(getEventsOfPeriod(st))
\* the map shows what the store holds, and the dragged event is in its origin
InStep == LocatedInOrigin /\ Membership(events) = Membership(Reloaded(store))
C27_ReloadAgrees ==
    [][\A over \in WeekCells \cup AllDayCells :
         (DragEnd(over) /\ InStep /\ last'.calls = 1)
         => Membership(Reloaded(store')) = Membership(events')]_vars

\* the same for a dragged event whose stored id is a string, dropped on a cell of
\* the hours 0..23
StoredAsString(id) == \E i \in 1 .. Len(store) : SameStoredId(store[i].id, id)
ReloadAgreesForStringIds ==
    [][\A over \in WeekCells \cup AllDayCells :
         (/\ DragEnd(over) /\ InStep /\ last'.calls = 1
          /\ StoredAsString(activeEvent[1].id)
          /\ over \in WeekCells => over[5] \in {StrTable[h] : h \in HoursOfDay})
         => Membership(Reloaded(store')) = Membership(events')]_vars

\* the event stored under a string id has just been moved and the store, read
\* again, files it where the map has it
ReloadedAlike ==
    /\ last.op = "dragEnd" /\ last.calls = 1
    /\ dndActive = StoredAllDay.id.v
    /\ Membership(Reloaded(store)) = Membership(events)
    /\ \E p \in Membership(events) : p[2] = StoredAllDay.id.v /\ StartsWithEvent(p[1])

\* The ref of the mounted view's hook denotes period p
MarkerDenotes(p) ==
    CASE p[1] = "week" -> fetchRefs.range = <<p[2]>>
      [] p[1] = "month" -> fetchRefs.month = <<p[3]>>
      [] p[1] = "year" -> fetchRefs.year = <<p[2]>>

\* Nothing is in flight, and the most recent request was sent while a call for
\* a different period was still in flight
RaceSettled == pendingCalls = <<>> /\ obs.raced

LatestRequestShown ==
    /\ mapOf = <<obs.requested[1].period>>
    /\ events = groupApiEventsToScheduled(EventsOfPeriod(store, obs.requested[1].period))
    /\ MarkerDenotes(obs.requested[1].period)

\* C28: when two fetchEvents calls for different periods were in flight at
\* once, then once both have settled the bucket map holds the events of the
\* most recently requested period and the 'already fetched' ref denotes that
\* period.  (Stated for the runs in which no service call has thrown.)
C28_LatestPeriodWins == RaceSettled /\ ~obs.failed => LatestRequestShown

\* Supplementary to C28: it holds while every call is the mounted view's own;
\* the responses arrive in the order of the requests
LatestPeriodWinsForOwnCalls ==
    RaceSettled /\ ~obs.failed /\ ~obs.forced => LatestRequestShown

RaceOfOwnCallsSettled == RaceSettled /\ ~obs.failed /\ ~obs.forced /\ LatestRequestShown

\* The step is a fetchEvents() call of the mounted view's effect
NonForcedCall == last'.op \in {"selectDate", "switchView"}

\* The latest fetch of the mounted view for the period now selected
LastFetchOfPeriod == obs.history[PeriodOf(viewBy', selectedDate'[1])]

\* A skipped call leaves the map alone and sends nothing to the service
SkippedCall ==
    /\ last'.branch = "skipped"
    /\ UNCHANGED <<events, mapOf, pendingCalls>>

\* The step is a call that has settled: a response, a failure or a skip
CallSettles ==
    \/ last'.op = "fetchResponse"
    \/ NonForcedCall /\ last'.branch \in {"skipped", "failed"}
    \/ last'.op = "refresh" /\ last'.branch = "failed"

\* C29: a non-forced fetchEvents call is skipped only when the last fetch of
\* the view for the same period (week range, year and month, year) completed
\* successfully; after a failed fetch or for a different period it fetches
\* again; and isLoading is false once a call has settled.  (A call skipped
\* while the last fetch of its period is still in flight is let pass.)
C29_SkipOnlyAfterSuccess ==
    [][/\ NonForcedCall /\ last'.branch = "skipped"
             => SkippedCall /\ LastFetchOfPeriod.state \in {"ok", "pending"}
       /\ CallSettles => ~isLoading']_vars

\* Supplementary to C29: in week and year view a skipped call follows a
\* successful fetch of the same period by the view's own hook, though not
\* always the last one
SkipsOfWeekAndYear ==
    [][NonForcedCall /\ viewBy' # "month" /\ last'.branch = "skipped"
           => SkippedCall /\ LastFetchOfPeriod.ok]_vars

\* Supplementary to C29: isLoading is false after every settled call
LoadingEndsWhenSettled == [][CallSettles => ~isLoading']_vars

\* The notification <<dndActive, over>> arriving at time t meets a record with
\* its key written strictly less than 300 ms before
InsideWindow(over, t) ==
    /\ lastDragRef # <<>>
    /\ lastDragRef[1].key = <<dndActive, over>>
    /\ t - lastDragRef[1].ts < 300

\* C30: in handleMonthDragEnd the record {key, ts} is overwritten only by a
\* notification that is not suppressed, and then with that notification's key
\* and time; a notification is suppressed if and only if the record, which is
\* the last non-suppressed notification, has the same key and is strictly less
\* than 300 ms old; so in a stream of identical notifications one is processed
\* again as soon as 300 ms have passed since the last processed one, however
\* many were suppressed in between.
C30_RecordOfLastProcessed ==
    [][/\ \A over \in MonthOvers : \A dt \in Gaps :
             MonthDragEnd(over, dt) /\ ~isHandlingDrop =>
                 /\ last'.branch = "duplicate" <=> InsideWindow(over, now')
                 /\ InsideWindow(over, now') => lastDragRef' = lastDragRef
                 /\ ~InsideWindow(over, now')
                        => lastDragRef' = <<[key |-> <<dndActive, over>>, ts |-> now']>>
       /\ lastDragRef' # lastDragRef
             => last'.op = "monthDragEnd" /\ last'.branch \notin {"duplicate", "reentrant"}]_vars

\* a notification has just been processed exactly 300 ms after the processed
\* one with the same key, and one was suppressed in between
C30_ProcessedAgain ==
    /\ last.op = "monthDragEnd" /\ last.branch \notin {"duplicate", "reentrant"}
    /\ lastDragRef # <<>> /\ lastDragRef[1].ts = now
    /\ stream.before >= 1
    /\ now - stream.prevTs = 300
====
